---- MODULE Spec2Model ----
(***************************************************************************)
(* A model of the Jsonthis serialization engine (jsonthis.ts) and of its   *)
(* schema store, traversal-function evaluator and visitation tracker       *)
(* (schema.ts).  A behaviour runs a small client program: decorators,      *)
(* engine constructions, serializer registrations and toJson / toJSON      *)
(* calls; every call is executed step by step on an explicit call stack.   *)
(***************************************************************************)
EXTENDS Integers, Sequences, FiniteSets, TLC

VARIABLES
    heap,        \* the object graph: a sequence of cells, addressed by index
    program,     \* the client program, a sequence of operations
    pc,          \* index of the next operation of the program
    schemas,     \* the JsonSchema instances created so far
    jsonSchema,  \* class -> index of the schema held in its own static property jsonSchema (0: none)
    toJSONHook,  \* class -> engine whose toJSON is installed on the class prototype (0: none)
    engines,     \* the Jsonthis instances: options and registry of global serializers
    self,        \* the engine running the current call
    stack,       \* the call stack of the current call, top last
    mode,        \* "idle" | "call" | "step" | "body" | "ret" | "throw"
    ret,         \* the value being returned, or the error being thrown
    st,          \* the JsonTraversalState of the current call: parent and VisitMap
    results,     \* outcome of every finished operation that returns or throws
    calls        \* log of the user callbacks invoked: function, value, options, parent

vars == <<heap, program, pc, schemas, jsonSchema, toJSONHook, engines, self,
          stack, mode, ret, st, results, calls>>

(***************************************************************************)
(* Values.  A value is a record [t, v, kids]; t is the result of typeof    *)
(* for an input value.  Strings are numbered (0 is the empty string) and   *)
(* an object value holds the address of its heap cell.                     *)
(***************************************************************************)
V(t, v) == [t |-> t, v |-> v, kids |-> <<>>]
Undefined == V("undefined", 0)
Null == V("null", 0)
Num(n) == V("number", n)
Str(s) == V("string", s)
Bool(b) == V("boolean", IF b THEN 1 ELSE 0)
Func == V("function", 0)
Sym == V("symbol", 0)
Ref(a) == V("object", a)
\* A plain object built by the engine: its keys in insertion order.
JsonObject(kv) == [t |-> "json", v |-> 0, kids |-> kv]
\* An array built by Array.prototype.map.
JsonArray(items) == [t |-> "list", v |-> 0, kids |-> items]

\* An integer beyond 32 bits, as a bigint or as a number: its sign in v (-1, 0,
\* 1) and its magnitude in kids, two limbs of 27 bits, the high one first.
Limb == 134217728
Mag(hi, lo) == <<Num(hi), Num(lo)>>
BigInt(sign, hi, lo) == [t |-> "bigint", v |-> sign, kids |-> Mag(hi, lo)]
BigNumber(sign, hi, lo) == [t |-> "number", v |-> sign, kids |-> Mag(hi, lo)]
\* Number.MAX_SAFE_INTEGER = 2^53 - 1 and Number.MIN_SAFE_INTEGER = -(2^53 - 1)
MAX_SAFE_INTEGER == BigNumber(1, Limb \div 2 - 1, Limb - 1)
MIN_SAFE_INTEGER == BigNumber(-1, Limb \div 2 - 1, Limb - 1)

\* x < y, for two integers given by sign and magnitude
MagLess(a, b) == a[1].v < b[1].v \/ (a[1].v = b[1].v /\ a[2].v < b[2].v)
Less(x, y) ==
    IF x.v # y.v THEN x.v < y.v
    ELSE IF x.v = 1 THEN MagLess(x.kids, y.kids)
    ELSE IF x.v = -1 THEN MagLess(y.kids, x.kids)
    ELSE FALSE

\* Number(value) of a bigint below 2^54 in magnitude: the nearest double, which
\* has 53 significant bits (a tie goes to the even significand)
BigIntToNumber(b) ==
    LET hi == b.kids[1].v
        lo == b.kids[2].v
        down == ((lo - 1) \div 2) % 2 = 0
    IN IF hi = 0 THEN Num(b.v * lo)
       ELSE IF hi < Limb \div 2 \/ lo % 2 = 0 THEN BigNumber(b.v, hi, lo)
       ELSE IF down THEN BigNumber(b.v, hi, lo - 1)
       ELSE IF lo + 1 = Limb THEN BigNumber(b.v, hi + 1, 0)
       ELSE BigNumber(b.v, hi, lo + 1)

\* The decimal digits of the magnitude (hi, lo), the most significant first
RECURSIVE Digits(_, _)
Digits(hi, lo) ==
    IF hi = 0 /\ lo < 10 THEN <<Num(lo)>>
    ELSE LET low == (hi % 10) * Limb + lo
         IN Append(Digits(hi \div 10, low \div 10), Num(low % 10))

\* value.toString() of a bigint: a string of digits, a minus sign before them
\* when v is -1
BigIntToString(b) ==
    [t |-> "string", v |-> b.v, kids |-> Digits(b.kids[1].v, b.kids[2].v)]

Cell(class, fields) == [class |-> class, fields |-> fields, items |-> <<>>]
ArrayCell(items) == [class |-> "Array", fields |-> <<>>, items |-> items]
Field(name, value) == [name |-> name, value |-> value]

isNull(value) == value = Null \/ value = Undefined

\* JavaScript truthiness of a value, as the operator || tests it.
Truthy(x) ==
    CASE x.t \in {"undefined", "null"} -> FALSE
      [] x.t \in {"number", "string", "boolean", "bigint"} -> x.v # 0
      [] OTHER -> TRUE

IsArray(h, value) == value.t = "object" /\ h[value.v].class = "Array"

\* value?.constructor
ConstructorOf(h, value) ==
    CASE value.t = "object" -> h[value.v].class
      [] value.t = "number" -> "Number"
      [] value.t = "string" -> "String"
      [] value.t = "boolean" -> "Boolean"
      [] value.t = "bigint" -> "BigInt"
      [] value.t = "function" -> "Function"
      [] value.t = "symbol" -> "Symbol"
      [] OTHER -> "none"

\* The value of the own field `name` of the object at address a (undefined when missing).
GetField(h, a, name) ==
    LET idx == {i \in 1..Len(h[a].fields) : h[a].fields[i].name = name}
    IN IF idx = {} THEN Undefined ELSE h[a].fields[CHOOSE i \in idx : TRUE].value

(***************************************************************************)
(* Classes.  User, Admin and Node are application classes (Admin extends  *)
(* User, Node declares a toJSON method of its own); Date has a native      *)
(* toJSON; Object is the class of the plain copies made by a model's get().*)
(***************************************************************************)
Classes == {"User", "Admin", "Node", "Date", "Object", "Array", "Number", "String", "Boolean"}
SuperOf(c) == IF c = "Admin" THEN "User" ELSE "none"
NativeToJSON(c) == c \in {"Date", "Node"}

(***************************************************************************)
(* Schema store (schema.ts).                                               *)
(***************************************************************************)
NoFields == [n \in {} |-> 0]
NewJsonSchema == [serializer |-> "none", definedFields |-> NoFields]

\* The static property jsonSchema read on a class: its own one, else the one
\* inherited from the superclass constructor.
RECURSIVE StaticJsonSchema(_, _)
StaticJsonSchema(js, c) ==
    IF c = "none" \/ c \notin DOMAIN js THEN 0
    ELSE IF js[c] # 0 THEN js[c]
    ELSE StaticJsonSchema(js, SuperOf(c))

\* JsonSchema.get(target): index of the schema, 0 when undefined
JsonSchemaGet(js, c) == IF c = "none" THEN 0 ELSE StaticJsonSchema(js, c)

\* JsonSchema.isPresent(target)
JsonSchemaIsPresent(js, c) == c # "none" /\ JsonSchemaGet(js, c) # 0

\* JsonSchema.getOrCreate(target): the schema store and static properties afterwards
GetOrCreateSchemas(sch, js, c) ==
    IF StaticJsonSchema(js, c) # 0 THEN sch ELSE Append(sch, NewJsonSchema)
GetOrCreateStatic(sch, js, c) ==
    IF StaticJsonSchema(js, c) # 0
    THEN [js EXCEPT ![c] = StaticJsonSchema(js, c)]
    ELSE [js EXCEPT ![c] = Len(sch) + 1]

\* schema?.definedFields.get(propertyName) || {}
DefaultField == [visible |-> "undefined", serializer |-> "none"]
FieldOptions(sch, s, name) ==
    IF s = 0 THEN DefaultField
    ELSE IF name \in DOMAIN sch[s].definedFields THEN sch[s].definedFields[name]
    ELSE DefaultField

(***************************************************************************)
(* Visitation tracker (VisitMap).  A level is the set of the values        *)
(* recorded at it: add is only reached for a value has() did not find.     *)
(***************************************************************************)
NewVisitMap == [depths |-> <<{}>>, currentDepth |-> 0]

has(vm, value) == \E d \in 1..Len(vm.depths) : value \in vm.depths[d]

\* Faulty variant of add: one flat set, whatever the level
addToRoot(vm, value) == [vm EXCEPT !.depths[1] = @ \cup {value}]

add(vm, value) ==
    [vm EXCEPT !.depths[vm.currentDepth + 1] = @ \cup {value}]

dive(vm) ==
    [depths |-> Append(vm.depths, {}), currentDepth |-> vm.currentDepth + 1]

\* Faulty variant of arise: the counter goes up a level, the level is kept
ariseKeepLevel(vm) == [vm EXCEPT !.currentDepth = @ - 1]

arise(vm) ==
    [depths |-> SubSeq(vm.depths, 1, Len(vm.depths) - 1),
     currentDepth |-> vm.currentDepth - 1]

\* typeof value: "object" for null as for an object, an array or a Date
TypeOf(value) == IF value.t = "null" THEN "object" ELSE value.t

\* visit(value): what it returns, and the tracker afterwards
visitResult(vm, value) == TypeOf(value) = "object" /\ has(vm, value)
visitMap(vm, value) ==
    IF TypeOf(value) = "object" /\ ~has(vm, value) THEN add(vm, value) ELSE vm

\* state = {visited: new VisitMap()}
NewState == [parent |-> Undefined, visited |-> NewVisitMap]

(***************************************************************************)
(* Options.  An unset numeric option (undefined) is written Unset; the     *)
(* context of a call is the callerId it carries, 0 when there is none.     *)
(***************************************************************************)
Unset == -1
Infinity == 1000000

ToJsonOptions(context, maxDepth) == [context |-> context, maxDepth |-> maxDepth]
NoOptions == ToJsonOptions(0, Unset)

JsonthisOptions(keepNulls, case, maxDepth, crs, models, sequelize) ==
    [keepNulls |-> keepNulls, case |-> case, maxDepth |-> maxDepth,
     circularReferenceSerializer |-> crs, models |-> models, sequelize |-> sequelize,
     transformBigInt |-> "undefined"]

\* options?.maxDepth || this.options.maxDepth || Infinity
EffectiveMaxDepth(options, engineOptions) ==
    IF options.maxDepth # Unset /\ options.maxDepth # 0 THEN options.maxDepth
    ELSE IF engineOptions.maxDepth # Unset /\ engineOptions.maxDepth # 0
         THEN engineOptions.maxDepth
    ELSE Infinity

(***************************************************************************)
(* String case conversion (package case-anything), on the field names the  *)
(* model uses.                                                             *)
(***************************************************************************)
camelCase(name) ==
    CASE name = "user_name" -> "userName"
      [] name = "Email" -> "email"
      [] OTHER -> name
snakeCase(name) ==
    CASE name = "userName" -> "user_name"
      [] name = "registeredAt" -> "registered_at"
      [] name = "Email" -> "email"
      [] OTHER -> name
pascalCase(name) ==
    CASE name = "id" -> "Id"
      [] name = "email" -> "Email"
      [] name = "secret" -> "Secret"
      [] name = "friend" -> "Friend"
      [] name = "roommate" -> "Roommate"
      [] name = "items" -> "Items"
      [] name = "user_name" -> "UserName"
      [] name = "userName" -> "UserName"
      [] name = "registeredAt" -> "RegisteredAt"
      [] name = "count" -> "Count"
      [] name = "nickname" -> "Nickname"
      [] name = "serial" -> "Serial"
      [] OTHER -> name

\* Faulty variant of the key: the name of the field, whatever the case option
PropertyNameUnchanged(engineOptions, name) == name

propertyNameToString(engineOptions, name) ==
    CASE engineOptions.case = "camel" -> camelCase(name)
      [] engineOptions.case = "snake" -> snakeCase(name)
      [] engineOptions.case = "pascal" -> pascalCase(name)
      [] OTHER -> name

(***************************************************************************)
(* Traversal functions.  A serializer is a record [fn, sch]: the name of   *)
(* the function and, for the serializer sequelizeInstall registers, the    *)
(* schema it captured.  The catalogue holds the callbacks of the README    *)
(* and of the tests.                                                       *)
(***************************************************************************)
Fn(name) == [fn |-> name, sch |-> 0]
NoFn == Fn("none")

\* Function.length: the declared parameter count
FnLength(name) ==
    CASE name \in {"maskEmail", "dateSerializer", "overridingDateSerializer",
                   "countSerializer", "serializeCircularReference", "userSerializer"} -> 1
      [] name \in {"contextualMaskEmail", "contextualSerializer"} -> 2
      [] name \in {"legacyVisible"} -> 3
      [] name \in {"showEmailOnlyToOwner", "sequelizeSerializer"} -> 4
      [] name \in {"fiveArgs"} -> 5
      [] OTHER -> 0

\* state.parent?.id
ParentId(h, state) ==
    IF state.parent.t = "object" THEN GetField(h, state.parent.v, "id") ELSE Undefined
\* options?.context?.callerId
CallerId(options) == IF options.context = 0 THEN Undefined ELSE Num(options.context)

\* The value a callback of the catalogue returns (the re-entrant one apart).
FnBody(name, h, state, value, options) ==
    CASE name = "maskEmail" -> V("masked", value.v)
      [] name = "contextualMaskEmail" -> V("masked", value.v + 10 * options.context)
      [] name = "contextualSerializer" -> V("contextual", value.v + 10 * options.context)
      [] name = "dateSerializer" -> V("isoString", value.v)
      [] name = "overridingDateSerializer" -> V("utcString", value.v)
      [] name = "userSerializer" -> V("userString", value.v)
      [] name = "countSerializer" -> Num(0)
      [] name = "serializeCircularReference" ->
            JsonObject(<<[k |-> "$ref", j |-> V("refName", value.v)]>>)
      [] name = "showEmailOnlyToOwner" -> Bool(CallerId(options) = ParentId(h, state))
      [] OTHER -> Undefined

\* Faulty variant of the evaluator: a function is called whatever its fn.length
evaluateAnyLength(f, h, state, value, options) ==
    IF f.fn \in {"none", "undefined"} THEN [kind |-> "value", value |-> Undefined]
    ELSE IF f.fn = "true" THEN [kind |-> "value", value |-> Bool(TRUE)]
    ELSE IF f.fn = "false" THEN [kind |-> "value", value |-> Bool(FALSE)]
    ELSE IF f.fn = "sequelizeSerializer" THEN [kind |-> "toJson", value |-> value]
    ELSE [kind |-> "value", value |-> FnBody(f.fn, h, state, value, options)]

\* evaluateJsonTraversalFn(fn, jsonthis, state, value, options): a value, an error,
\* or (the serializer of sequelizeInstall) a re-entrant call of toJson.
evaluateJsonTraversalFn(f, h, state, value, options) ==
    IF f.fn \in {"none", "undefined"} THEN [kind |-> "value", value |-> Undefined]
    ELSE IF f.fn = "true" THEN [kind |-> "value", value |-> Bool(TRUE)]
    ELSE IF f.fn = "false" THEN [kind |-> "value", value |-> Bool(FALSE)]
    ELSE IF FnLength(f.fn) \notin {1, 2, 4}
         THEN [kind |-> "throw", value |-> V("Error: Invalid number of arguments", 0)]
    ELSE IF f.fn = "sequelizeSerializer" THEN [kind |-> "toJson", value |-> value]
    ELSE [kind |-> "value", value |-> FnBody(f.fn, h, state, value, options)]

(***************************************************************************)
(* Engine helpers (jsonthis.ts).                                           *)
(***************************************************************************)
NoHook == [eng |-> 0, kind |-> "none", sch |-> 0]
NoSerializers == [c \in Classes |-> NoFn]

\* The toJSON method found on an instance of class c, through the prototype chain.
RECURSIVE PrototypeToJSON(_, _)
PrototypeToJSON(hooks, c) ==
    IF c = "none" \/ c \notin DOMAIN hooks THEN NoHook
    ELSE IF hooks[c].eng # 0 THEN hooks[c]
    ELSE PrototypeToJSON(hooks, SuperOf(c))

\* 'toJSON' in value && typeof value.toJSON === "function"
HasToJSON(hooks, c) == NativeToJSON(c) \/ PrototypeToJSON(hooks, c).eng # 0

\* Faulty variant of the registry lookup: no entry is ever found
SerializerIgnored(registry, c) == NoFn

\* this.serializers.get(value?.constructor)
SerializerFor(registry, c) == IF c \in DOMAIN registry THEN registry[c] ELSE NoFn

\* Faulty variant of the range test: value >= MAX_SAFE_INTEGER || value <= MIN_SAFE_INTEGER
AtOrBeyondSafeRange(value) ==
    ~Less(value, MAX_SAFE_INTEGER) \/ ~Less(MIN_SAFE_INTEGER, value)

\* value > Number.MAX_SAFE_INTEGER || value < Number.MIN_SAFE_INTEGER
BeyondSafeRange(value) == Less(MAX_SAFE_INTEGER, value) \/ Less(value, MIN_SAFE_INTEGER)

\* Faulty variant of serializeTrivialValue: an object with a toJSON method is
\* trivial whether its class has a schema or not
serializeTrivialValueAnySchema(h, hooks, js, value, engineOptions) ==
    CASE value.t = "object" ->
            [value |-> value, trivial |-> HasToJSON(hooks, ConstructorOf(h, value))]
      [] value.t = "bigint" ->
            IF engineOptions.transformBigInt = "false"
            THEN [value |-> value, trivial |-> TRUE]
            ELSE IF BeyondSafeRange(value)
            THEN [value |-> BigIntToString(value), trivial |-> TRUE]
            ELSE [value |-> BigIntToNumber(value), trivial |-> TRUE]
      [] value.t \in {"symbol", "function"} -> [value |-> Undefined, trivial |-> TRUE]
      [] OTHER -> [value |-> value, trivial |-> TRUE]

\* serializeTrivialValue(value): [value, trivial]
serializeTrivialValue(h, hooks, js, value, engineOptions) ==
    CASE value.t = "object" ->
            IF HasToJSON(hooks, ConstructorOf(h, value))
               /\ ~JsonSchemaIsPresent(js, ConstructorOf(h, value))
            THEN [value |-> value, trivial |-> TRUE]
            ELSE [value |-> value, trivial |-> FALSE]
      [] value.t = "bigint" ->
            IF engineOptions.transformBigInt = "false"
            THEN [value |-> value, trivial |-> TRUE]
            ELSE IF BeyondSafeRange(value)
            THEN [value |-> BigIntToString(value), trivial |-> TRUE]
            ELSE [value |-> BigIntToNumber(value), trivial |-> TRUE]
      [] value.t \in {"symbol", "function"} -> [value |-> Undefined, trivial |-> TRUE]
      [] OTHER -> [value |-> value, trivial |-> TRUE]

\* Faulty variant of the null policy: null is kept whatever keepNulls is
NullKept(engineOptions) == Null

\* isNull(x) ? (this.options.keepNulls ? null : undefined)
NullResult(engineOptions) == IF engineOptions.keepNulls THEN Null ELSE Undefined

\* Faulty variant of the visibility test: if (!visible) continue
HiddenWhenFalsy(visible) == ~Truthy(visible)

\* visible === false
Hidden(visible) == visible = Bool(FALSE)

\* field.serializer || this.serializers.get(value?.constructor)
EffectiveSerializer(field, registry, c) ==
    IF field.serializer # "none" THEN Fn(field.serializer) ELSE SerializerFor(registry, c)

\* Faulty variant of the array element: value.map(e => this.serialize(e, ...))
ArrayElementKept(result) == result

\* the element value.map(e => this.serialize(e, ...) || null) keeps for a result
ArrayElement(result) == IF Truthy(result) THEN result ELSE Null

\* Faulty variant of the root marking: the root is not recorded
RootVisitSkipped(state, target) == state

\* if (!state.parent) state.visited.visit(target)
RootVisit(state, target) ==
    IF ~Truthy(state.parent) THEN [state EXCEPT !.visited = visitMap(@, target)] ELSE state

\* Faulty variant of the error: new CircularReferenceError(state.parent, state)
CircularReferenceErrorOfParent(value, state) == V("CircularReferenceError", state.parent.v)

\* new CircularReferenceError(value, state)
CircularReferenceError(value, state) == V("CircularReferenceError", value.v)

\* json[key] = serializedValue
SetKey(kv, key, value) ==
    IF \E n \in 1..Len(kv) : kv[n].k = key
    THEN [n \in 1..Len(kv) |-> IF kv[n].k = key THEN [k |-> key, j |-> value] ELSE kv[n]]
    ELSE Append(kv, [k |-> key, j |-> value])

\* value.get() of a model of the tests: Object.assign({}, this)
ModelGet(h, value) == Cell("Object", h[value.v].fields)

(***************************************************************************)
(* The call stack.  A frame is an activation of toJson (op "toJson" before *)
(* its body ran, "fields" while it iterates the own fields, "mapToJson"    *)
(* while it maps an array) or of serialize ("serialize" before its body    *)
(* ran, "dived" inside its try block, "mapSerialize" while it maps an      *)
(* array).                                                                 *)
(***************************************************************************)
Frame(op, val, sch, hs, opt, ser) ==
    [op |-> op, val |-> val, sch |-> sch, hs |-> hs, opt |-> opt, ser |-> ser,
     i |-> 1, acc |-> <<>>, key |-> ""]

Top == stack[Len(stack)]
Pop(s) == SubSeq(s, 1, Len(s) - 1)
ReplaceTop(s, f) == [s EXCEPT ![Len(s)] = f]

\* The machine configuration an operation leaves: what the action assigns.
Config == [stack |-> stack, mode |-> mode, ret |-> ret, st |-> st, heap |-> heap, calls |-> calls]

\* Faulty variant of the argument list: every function is given all four
ArgumentsAll(f, jsonthis, state, value, options) == <<jsonthis, state, value, options>>

\* The arguments evaluateJsonTraversalFn passes to a function, by fn.length
Arguments(f, jsonthis, state, value, options) ==
    CASE FnLength(f.fn) = 1 -> <<value>>
      [] FnLength(f.fn) = 2 -> <<value, options>>
      [] OTHER -> <<jsonthis, state, value, options>>

CallRecord(f, value, options, state) ==
    [op |-> pc, fn |-> f.fn, value |-> value, options |-> options, parent |-> state.parent,
     args |-> Arguments(f, self, state, value, options)]

\* Invoke a traversal function from configuration c (whose stack is the caller's)
\* and continue with its outcome.
Invoke(c, f, state, value, options) ==
    LET r == evaluateJsonTraversalFn(f, c.heap, state, value, options)
        logged == IF FnLength(f.fn) \in {1, 2, 4}
                  THEN Append(c.calls, CallRecord(f, value, options, state))
                  ELSE c.calls
    IN CASE r.kind = "value" ->
              [c EXCEPT !.mode = "ret", !.ret = r.value, !.st = state, !.calls = logged]
         [] r.kind = "throw" ->
              [c EXCEPT !.mode = "throw", !.ret = r.value, !.st = state, !.calls = logged]
         [] OTHER ->
              \* jsonthis.toJson(value.get(), options, state, schema)
              [c EXCEPT !.heap = Append(c.heap, ModelGet(c.heap, value)),
                        !.stack = Append(c.stack,
                                     Frame("toJson", Ref(Len(c.heap) + 1), f.sch, TRUE, options, NoFn)),
                        !.mode = "call", !.st = state, !.calls = logged]

\* toJson(target, options, state, schema), up to the loop over the fields
toJson(f) ==
    LET target == f.val
        eo == engines[self].options
        rest == Pop(stack)
    IN IF isNull(target)
       THEN [Config EXCEPT !.stack = rest, !.mode = "ret", !.ret = NullResult(eo)]
       ELSE IF IsArray(heap, target)
       THEN [Config EXCEPT !.stack = ReplaceTop(stack, [f EXCEPT !.op = "mapToJson"]),
                           !.mode = "step"]
       ELSE
         LET schema == IF f.sch # 0 THEN f.sch
                       ELSE JsonSchemaGet(jsonSchema, ConstructorOf(heap, target))
             state0 == IF f.hs THEN st ELSE NewState
             state == RootVisit(state0, target)
             schemaSerializer == IF schema = 0 THEN NoFn ELSE Fn(schemas[schema].serializer)
             customSerializer == SerializerFor(engines[self].serializers,
                                               ConstructorOf(heap, target))
             tv == serializeTrivialValue(heap, toJSONHook, jsonSchema, target, eo)
         IN IF schemaSerializer.fn # "none"
            THEN Invoke([Config EXCEPT !.stack = rest], schemaSerializer, state, target, f.opt)
            ELSE IF customSerializer.fn # "none"
            THEN Invoke([Config EXCEPT !.stack = rest], customSerializer, state, target, f.opt)
            ELSE IF tv.trivial
            THEN [Config EXCEPT !.stack = rest, !.mode = "ret", !.ret = tv.value, !.st = state]
            ELSE [Config EXCEPT
                    !.stack = ReplaceTop(stack, [f EXCEPT !.op = "fields", !.sch = schema,
                                                          !.hs = TRUE]),
                    !.mode = "step",
                    !.st = [state EXCEPT !.parent = target]]

\* One iteration of the loop of toJson over the own enumerable fields
toJsonField(f) ==
    LET target == f.val
        eo == engines[self].options
        fields == heap[target.v].fields
    IN IF f.i > Len(fields)
       THEN [Config EXCEPT !.stack = Pop(stack), !.mode = "ret", !.ret = JsonObject(f.acc)]
       ELSE
         LET value == fields[f.i].value
             field == FieldOptions(schemas, f.sch, fields[f.i].name)
             visible == evaluateJsonTraversalFn(Fn(field.visible), heap, st, value, f.opt)
             logged == IF FnLength(field.visible) \in {1, 2, 4}
                       THEN Append(calls, CallRecord(Fn(field.visible), value, f.opt, st))
                       ELSE calls
             key == propertyNameToString(eo, fields[f.i].name)
             serializer == EffectiveSerializer(field, engines[self].serializers,
                                               ConstructorOf(heap, value))
         IN IF visible.kind = "throw"
            THEN [Config EXCEPT !.mode = "throw", !.ret = visible.value]
            ELSE IF Hidden(visible.value)
            THEN [Config EXCEPT !.stack = ReplaceTop(stack, [f EXCEPT !.i = f.i + 1]),
                                !.calls = logged]
            ELSE [Config EXCEPT
                    !.stack = Append(ReplaceTop(stack, [f EXCEPT !.key = key]),
                                     Frame("serialize", value, 0, TRUE, f.opt, serializer)),
                    !.mode = "call", !.calls = logged]

\* serialize(value, state, serializer, options), up to the try block
serialize(f) ==
    LET value == f.val
        eo == engines[self].options
        tv == serializeTrivialValue(heap, toJSONHook, jsonSchema, value, eo)
    IN IF isNull(value)
       THEN [Config EXCEPT !.stack = Pop(stack), !.mode = "ret", !.ret = NullResult(eo)]
       ELSE IF IsArray(heap, value)
       THEN [Config EXCEPT !.stack = ReplaceTop(stack, [f EXCEPT !.op = "mapSerialize"]),
                           !.mode = "step"]
       ELSE IF f.ser.fn = "none" /\ tv.trivial
       THEN [Config EXCEPT !.stack = Pop(stack), !.mode = "ret", !.ret = tv.value]
       ELSE [Config EXCEPT !.stack = ReplaceTop(stack, [f EXCEPT !.op = "dived"]),
                           !.mode = "body",
                           !.st = [st EXCEPT !.visited = dive(@)]]

\* Faulty variant of the nested call: this.toJson(value, undefined, state)
NestedCallWithoutOptions(value, options) == Frame("toJson", value, 0, TRUE, NoOptions, NoFn)

\* this.toJson(value, options, state)
NestedCall(value, options) == Frame("toJson", value, 0, TRUE, options, NoFn)

\* Faulty variant of the try block: the visitation check comes before the
\* depth check
serializeTryVisitFirst(f) ==
    LET value == f.val
        eo == engines[self].options
        maxDepth == EffectiveMaxDepth(f.opt, eo)
    IN IF visitResult(st.visited, value)
       THEN IF eo.circularReferenceSerializer # "none"
            THEN Invoke(Config, Fn(eo.circularReferenceSerializer), st, value, f.opt)
            ELSE [Config EXCEPT !.mode = "throw",
                                !.ret = CircularReferenceError(value, st)]
       ELSE IF st.visited.currentDepth > maxDepth
       THEN [Config EXCEPT !.mode = "ret", !.ret = Undefined,
                           !.st = [st EXCEPT !.visited = visitMap(@, value)]]
       ELSE LET state == [st EXCEPT !.visited = visitMap(@, value)]
            IN IF f.ser.fn # "none"
               THEN Invoke(Config, f.ser, state, value, f.opt)
               ELSE [Config EXCEPT
                       !.stack = Append(stack, NestedCall(value, f.opt)),
                       !.mode = "call", !.st = state]

\* the try block of serialize, after state.visited.dive()
serializeTry(f) ==
    LET value == f.val
        eo == engines[self].options
        maxDepth == EffectiveMaxDepth(f.opt, eo)
    IN IF st.visited.currentDepth > maxDepth
       THEN [Config EXCEPT !.mode = "ret", !.ret = Undefined]
       ELSE IF visitResult(st.visited, value)
       THEN IF eo.circularReferenceSerializer # "none"
            THEN Invoke(Config, Fn(eo.circularReferenceSerializer), st, value, f.opt)
            ELSE [Config EXCEPT !.mode = "throw",
                                !.ret = CircularReferenceError(value, st)]
       ELSE LET state == [st EXCEPT !.visited = visitMap(@, value)]
            IN IF f.ser.fn # "none"
               THEN Invoke(Config, f.ser, state, value, f.opt)
               ELSE [Config EXCEPT
                       !.stack = Append(stack, NestedCall(value, f.opt)),
                       !.mode = "call", !.st = state]

\* One element of target.map(...) in toJson or of value.map(...) in serialize
mapElement(f) ==
    LET items == heap[f.val.v].items
    IN IF f.i > Len(items)
       THEN [Config EXCEPT !.stack = Pop(stack), !.mode = "ret", !.ret = JsonArray(f.acc)]
       ELSE IF f.op = "mapToJson"
       THEN [Config EXCEPT
               !.stack = Append(stack, Frame("toJson", items[f.i], f.sch, f.hs, f.opt, NoFn)),
               !.mode = "call"]
       ELSE [Config EXCEPT
               !.stack = Append(stack, Frame("serialize", items[f.i], 0, TRUE, f.opt, f.ser)),
               !.mode = "call"]

\* A callee returned `ret` into frame f
returnInto(f) ==
    CASE f.op = "fields" ->
            [Config EXCEPT
               !.stack = ReplaceTop(stack,
                           [f EXCEPT !.acc = IF ret # Undefined THEN SetKey(f.acc, f.key, ret)
                                             ELSE f.acc,
                                     !.i = f.i + 1]),
               !.mode = "step"]
      [] f.op = "mapSerialize" ->
            [Config EXCEPT
               !.stack = ReplaceTop(stack, [f EXCEPT !.acc = Append(f.acc, ArrayElement(ret)),
                                                     !.i = f.i + 1]),
               !.mode = "step"]
      [] OTHER ->
            [Config EXCEPT
               !.stack = ReplaceTop(stack, [f EXCEPT !.acc = Append(f.acc, ret),
                                                     !.i = f.i + 1]),
               !.mode = "step"]

\* The call stack of the JavaScript engine is finite: a call that needs one
\* frame more than it holds raises RangeError in the caller.
MaxStack == 12
RangeError == V("RangeError", 0)
StackOverflow(c) == Len(c.stack) > MaxStack

Assign(c) ==
    /\ stack' = IF StackOverflow(c) THEN stack ELSE c.stack
    /\ mode' = IF StackOverflow(c) THEN "throw" ELSE c.mode
    /\ ret' = IF StackOverflow(c) THEN RangeError ELSE c.ret
    /\ st' = c.st
    /\ heap' = c.heap
    /\ calls' = c.calls

(***************************************************************************)
(* The client program: decorators, constructions, registrations, calls.   *)
(***************************************************************************)
Op(op) == [op |-> op, eng |-> 0, opts |-> 0, cls |-> "none", name |-> "", policy |-> DefaultField,
           fn |-> "none", allow |-> FALSE, target |-> Undefined, options |-> NoOptions]

\* @JsonField(options) on field `name` of class cls
JsonFieldOp(cls, name, visible, serializer) ==
    [Op("JsonField") EXCEPT !.cls = cls, !.name = name,
                            !.policy = [visible |-> visible, serializer |-> serializer]]
\* @JsonSerializer(fn) on class cls
JsonSerializerOp(cls, fn) == [Op("JsonSerializer") EXCEPT !.cls = cls, !.fn = fn]
\* new Jsonthis(opts)
NewOp(opts) == [Op("new") EXCEPT !.opts = opts]
\* engine.registerGlobalSerializer(cls, fn, allow)
RegisterOp(eng, cls, fn, allow) ==
    [Op("register") EXCEPT !.eng = eng, !.cls = cls, !.fn = fn, !.allow = allow]
\* engine.toJson(target, options)
ToJsonOp(eng, target, options) ==
    [Op("toJson") EXCEPT !.eng = eng, !.target = target, !.options = options]
\* target.toJSON(options)
ToJSONOp(target, options) == [Op("toJSON") EXCEPT !.target = target, !.options = options]

\* Faulty variant of the installation: a toJSON already installed is kept
InstallToJSONOnce(hooks, model, hook) ==
    IF hooks[model].eng # 0 THEN hooks ELSE [hooks EXCEPT ![model] = hook]

\* model.prototype.toJSON = function (options) {...}
InstallToJSON(hooks, model, hook) == [hooks EXCEPT ![model] = hook]

\* The loop of the constructor over options.models
RECURSIVE installModels(_, _, _, _, _)
installModels(models, e, sch, js, hooks) ==
    IF models = <<>> THEN [schemas |-> sch, jsonSchema |-> js, hooks |-> hooks]
    ELSE LET model == Head(models)
             sch1 == GetOrCreateSchemas(sch, js, model)
             js1 == GetOrCreateStatic(sch, js, model)
         IN installModels(Tail(models), e, sch1, js1,
                InstallToJSON(hooks, model, [eng |-> e, kind |-> "models", sch |-> js1[model]]))

\* sequelizeInstall(models): the registry and the prototypes afterwards
RECURSIVE sequelizeInstall(_, _, _, _, _)
sequelizeInstall(models, e, js, registry, hooks) ==
    IF models = <<>> THEN [serializers |-> registry, hooks |-> hooks]
    ELSE LET model == Head(models)
             schema == JsonSchemaGet(js, model)
         IN sequelizeInstall(Tail(models), e, js,
                [registry EXCEPT ![model] = [fn |-> "sequelizeSerializer", sch |-> schema]],
                InstallToJSON(hooks, model, [eng |-> e, kind |-> "sequelize", sch |-> 0]))

\* The @JsonField decorator
JsonField ==
    /\ mode = "idle" /\ pc <= Len(program) /\ program[pc].op = "JsonField"
    /\ LET o == program[pc]
           sch1 == GetOrCreateSchemas(schemas, jsonSchema, o.cls)
           js1 == GetOrCreateStatic(schemas, jsonSchema, o.cls)
           options == IF o.policy.visible = "undefined"
                      THEN [o.policy EXCEPT !.visible = "true"] ELSE o.policy
       IN /\ schemas' = [sch1 EXCEPT ![js1[o.cls]].definedFields =
                            [n \in (DOMAIN @) \cup {o.name} |->
                                IF n = o.name THEN options ELSE @[n]]]
          /\ jsonSchema' = js1
    /\ pc' = pc + 1
    /\ UNCHANGED <<heap, program, toJSONHook, engines, self, stack, mode, ret, st, results, calls>>

\* The @JsonSerializer decorator
JsonSerializer ==
    /\ mode = "idle" /\ pc <= Len(program) /\ program[pc].op = "JsonSerializer"
    /\ LET o == program[pc]
           sch1 == GetOrCreateSchemas(schemas, jsonSchema, o.cls)
           js1 == GetOrCreateStatic(schemas, jsonSchema, o.cls)
       IN /\ schemas' = [sch1 EXCEPT ![js1[o.cls]].serializer = o.fn]
          /\ jsonSchema' = js1
    /\ pc' = pc + 1
    /\ UNCHANGED <<heap, program, toJSONHook, engines, self, stack, mode, ret, st, results, calls>>

\* new Jsonthis(options)
Constructor ==
    /\ mode = "idle" /\ pc <= Len(program) /\ program[pc].op = "new"
    /\ LET o == program[pc]
           e == Len(engines) + 1
           m == installModels(o.opts.models, e, schemas, jsonSchema, toJSONHook)
           q == sequelizeInstall(o.opts.sequelize, e, m.jsonSchema, NoSerializers, m.hooks)
       IN /\ schemas' = m.schemas
          /\ jsonSchema' = m.jsonSchema
          /\ toJSONHook' = q.hooks
          /\ engines' = Append(engines, [options |-> o.opts, serializers |-> q.serializers])
    /\ pc' = pc + 1
    /\ UNCHANGED <<heap, program, self, stack, mode, ret, st, results, calls>>

\* Faulty variant of the test of registerGlobalSerializer: allowOverride ignored
HasSerializer(registry, target, allowOverride) == registry[target].fn # "none"

\* this.serializers.has(target) && !allowOverride
AlreadyRegistered(registry, target, allowOverride) ==
    registry[target].fn # "none" /\ ~allowOverride

\* registerGlobalSerializer(target, serializer, allowOverride)
registerGlobalSerializer ==
    /\ mode = "idle" /\ pc <= Len(program) /\ program[pc].op = "register"
    /\ LET o == program[pc]
       IN IF AlreadyRegistered(engines[o.eng].serializers, o.cls, o.allow)
          THEN /\ results' = Append(results,
                     [kind |-> "throw", op |-> pc, eng |-> o.eng,
                      value |-> [t |-> "Error: Serializer already registered for",
                                 v |-> 0, kids |-> <<>>, name |-> o.cls]])
               /\ UNCHANGED engines
          ELSE /\ engines' = [engines EXCEPT ![o.eng].serializers[o.cls] = Fn(o.fn)]
               /\ UNCHANGED results
    /\ pc' = pc + 1
    /\ UNCHANGED <<heap, program, schemas, jsonSchema, toJSONHook, self, stack, mode, ret, st, calls>>

\* A client calls engine.toJson(target, options)
CallToJson ==
    /\ mode = "idle" /\ pc <= Len(program) /\ program[pc].op = "toJson"
    /\ LET o == program[pc]
       IN /\ self' = o.eng
          /\ stack' = <<Frame("toJson", o.target, 0, FALSE, o.options, NoFn)>>
    /\ mode' = "call"
    /\ UNCHANGED <<heap, program, pc, schemas, jsonSchema, toJSONHook, engines, ret, st, results, calls>>

\* A client calls target.toJSON(options), the method a constructor installed
CallToJSON ==
    /\ mode = "idle" /\ pc <= Len(program) /\ program[pc].op = "toJSON"
    /\ LET o == program[pc]
           hook == PrototypeToJSON(toJSONHook, ConstructorOf(heap, o.target))
       IN /\ hook.eng # 0
          /\ self' = hook.eng
          /\ stack' = <<Frame("toJson", o.target, hook.sch, FALSE, o.options, NoFn)>>
    /\ mode' = "call"
    /\ UNCHANGED <<heap, program, pc, schemas, jsonSchema, toJSONHook, engines, ret, st, results, calls>>

Frozen == UNCHANGED <<program, pc, schemas, jsonSchema, toJSONHook, engines, self, results>>

ToJsonEnter ==
    /\ mode = "call" /\ Top.op = "toJson"
    /\ Assign(toJson(Top))
    /\ Frozen

ToJsonField ==
    /\ mode = "step" /\ Top.op = "fields"
    /\ Assign(toJsonField(Top))
    /\ Frozen

SerializeEnter ==
    /\ mode = "call" /\ Top.op = "serialize"
    /\ Assign(serialize(Top))
    /\ Frozen

SerializeTry ==
    /\ mode = "body" /\ Top.op = "dived"
    /\ Assign(serializeTry(Top))
    /\ Frozen

\* Faulty variant of the finally block: the level is popped on a return only
ariseOnReturn(state, how) ==
    IF how = "throw" THEN state ELSE [state EXCEPT !.visited = arise(@)]

\* finally { state.visited.arise() }, on a return and on a throw
finally(state, how) == [state EXCEPT !.visited = arise(@)]

\* the finally block of serialize
SerializeFinally ==
    /\ mode \in {"ret", "throw"} /\ stack # <<>> /\ Top.op = "dived"
    /\ Assign([Config EXCEPT !.stack = Pop(stack), !.st = finally(st, mode)])
    /\ Frozen

MapElement ==
    /\ mode = "step" /\ Top.op \in {"mapToJson", "mapSerialize"}
    /\ Assign(mapElement(Top))
    /\ Frozen

Return ==
    /\ mode = "ret" /\ stack # <<>> /\ Top.op \in {"fields", "mapToJson", "mapSerialize"}
    /\ Assign(returnInto(Top))
    /\ Frozen

\* An exception leaves a frame that has no handler for it
Unwind ==
    /\ mode = "throw" /\ stack # <<>> /\ Top.op # "dived"
    /\ Assign([Config EXCEPT !.stack = Pop(stack)])
    /\ Frozen

\* The call returns to the client, or throws
Finish ==
    /\ mode \in {"ret", "throw"} /\ stack = <<>>
    /\ results' = Append(results,
          [kind |-> IF mode = "ret" THEN "return" ELSE "throw", op |-> pc, eng |-> self,
           value |-> ret])
    /\ mode' = "idle"
    /\ pc' = pc + 1
    /\ UNCHANGED <<heap, program, schemas, jsonSchema, toJSONHook, engines, self, stack, ret, st, calls>>

Next ==
    \/ JsonField
    \/ JsonSerializer
    \/ Constructor
    \/ registerGlobalSerializer
    \/ CallToJson
    \/ CallToJSON
    \/ ToJsonEnter
    \/ ToJsonField
    \/ SerializeEnter
    \/ SerializeTry
    \/ SerializeFinally
    \/ MapElement
    \/ Return
    \/ Unwind
    \/ Finish

(***************************************************************************)
(* Inputs.  NObjs User objects at addresses 1..NObjs, a Date at DateAddr   *)
(* and an array at ItemsAddr, held by the field items of one User.  Every  *)
(* User has the own fields of `layout`, in that order.                     *)
(***************************************************************************)
NObjs == 3
MaxDepthBound == 2
MaxCaller == 2
MaxItems == 2
MaxDelta == 2

Objs == 1..NObjs
DateAddr == NObjs + 1
ItemsAddr == NObjs + 2

RefOrUndefined(a) == IF a = 0 THEN Undefined ELSE Ref(a)

\* A shape: who is whose friend, the roommate of object 1, the holder of the array
Shape(friend, roommate, holder) == [friend |-> friend, roommate |-> roommate, holder |-> holder]

UserValue(a, name, shape) ==
    CASE name = "id" -> Num(a)
      [] name = "email" -> Str(a)
      [] name = "secret" -> Str(100 + a)
      [] name = "user_name" -> Str(200 + a)
      [] name = "userName" -> Str(300 + a)
      [] name = "count" -> Num(0)
      [] name = "nickname" -> Null
      [] name = "friend" -> RefOrUndefined(shape.friend[a])
      [] name = "roommate" -> IF a = 1 THEN RefOrUndefined(shape.roommate) ELSE Undefined
      [] name = "items" -> IF a = shape.holder THEN Ref(ItemsAddr) ELSE Undefined
      [] name = "registeredAt" -> Ref(DateAddr)
      [] OTHER -> Undefined

UserCell(a, layout, shape) ==
    Cell("User", [n \in 1..Len(layout) |-> Field(layout[n], UserValue(a, layout[n], shape))])

Heap(layout, shape, items) ==
    [a \in 1..(NObjs + 2) |->
        IF a <= NObjs THEN UserCell(a, layout, shape)
        ELSE IF a = DateAddr THEN Cell("Date", <<>>)
        ELSE ArrayCell(items)]

Graphs == [Objs -> 0..NObjs]
NoFriends == [a \in Objs |-> 0]
\* 1 -> 2 -> ... -> n
Chain(n) == [a \in Objs |-> IF a < n THEN a + 1 ELSE 0]
Chains == {Chain(n) : n \in Objs}
\* 1 -> 2 -> ... -> NObjs -> 1
Ring == [a \in Objs |-> IF a < NObjs THEN a + 1 ELSE 1]
\* every object refers to the next one, to the first one, or to none
ChainGraphs == {g \in Graphs : \A a \in Objs : g[a] \in {0, a + 1, 1}}

\* The arrays of at most MaxItems elements taken from S
Lists(S) == UNION {[1..m -> S] : m \in 0..MaxItems}

Scenario(h, prog) == [heap |-> h, program |-> prog]

Plain == JsonthisOptions(FALSE, "none", Unset, "none", <<>>, <<>>)
Handlers == {"none", "serializeCircularReference"}
Depths == {Unset} \cup 0..MaxDepthBound

\* The object graphs of the tests on circular and duplicated references: every
\* graph of friend references; object 1 holding a second reference (roommate).
GraphScenarios ==
    { Scenario(Heap(<<"id", "friend", "roommate">>, Shape(g[1], g[2], 0), <<>>),
               <<NewOp([Plain EXCEPT !.circularReferenceSerializer = crs]),
                 ToJsonOp(1, Ref(1), NoOptions)>>) :
        g \in {x \in Graphs \X {0, 2, NObjs} : x[2] = 0 \/ x[1] \in ChainGraphs},
        crs \in Handlers }

\* Graphs serialized through the serializer sequelizeInstall registers
SequelizeScenarios ==
    { Scenario(Heap(<<"id", "friend", "roommate">>, Shape(friend, 0, 0), <<>>),
               <<NewOp([Plain EXCEPT !.circularReferenceSerializer = crs,
                                     !.models = <<"User">>, !.sequelize = <<"User">>]),
                 ToJsonOp(1, Ref(1), NoOptions)>>) :
        friend \in ChainGraphs, crs \in Handlers }

\* Object 1 holding an array of objects: itself, one object twice, ...
ArrayScenarios ==
    { Scenario(Heap(<<"id", "items", "friend">>, Shape(friend, 0, 1), items),
               <<NewOp([Plain EXCEPT !.circularReferenceSerializer = crs]),
                 ToJsonOp(1, Ref(1), NoOptions)>>) :
        friend \in {NoFriends, Chain(NObjs), Ring},
        items \in Lists({Ref(a) : a \in Objs}), crs \in Handlers }

\* One field with a static visibility, on the three paths into toJson
Paths == {"toJson", "models", "sequelize"}
PathOptions(path, case) ==
    [Plain EXCEPT !.case = case,
                  !.models = IF path = "toJson" THEN <<>> ELSE <<"User">>,
                  !.sequelize = IF path = "sequelize" THEN <<"User">> ELSE <<>>]
PathCall(path, target, options) ==
    IF path = "toJson" THEN ToJsonOp(1, target, options) ELSE ToJSONOp(target, options)

VisibilityScenarios ==
    { Scenario(Heap(layout, Shape(Chain(NObjs), 0, 1), items),
               <<JsonFieldOp("User", hidden, visible, "none"),
                 NewOp(PathOptions(path, case)),
                 PathCall(path, Ref(1), NoOptions)>>) :
        layout \in {<<"secret", "id", "friend", "items">>, <<"id", "items", "friend", "secret">>},
        hidden \in {"secret", "friend", "items"},
        visible \in {"false", "true", "undefined"},
        items \in {<<>>, <<Ref(2)>>},
        path \in Paths, case \in {"none", "pascal"} }

\* The rule of the README on field email, declared before or after field friend
ConditionalScenarios ==
    { Scenario(Heap(layout, Shape(friend, 0, 0), <<>>),
               <<JsonFieldOp("User", "email", "showEmailOnlyToOwner", "none"),
                 NewOp(PathOptions(path, "none")),
                 PathCall(path, Ref(1), ToJsonOptions(callerId, Unset))>>) :
        layout \in {<<"id", "email", "friend">>, <<"id", "friend", "email">>},
        friend \in Chains, callerId \in 0..MaxCaller, path \in {"toJson", "models"} }

\* Depth limits of the engine and of the call, on a chain and on a ring; the
\* array is held by object 1 or by object 2
DepthScenarios ==
    { Scenario(Heap(<<"id", "email", "friend", "items">>, Shape(friend, 0, hi[1]), hi[2]),
               <<JsonFieldOp("User", "email", "true", serializer),
                 NewOp([Plain EXCEPT !.maxDepth = engineDepth,
                                     !.circularReferenceSerializer = crs]),
                 ToJsonOp(1, Ref(1), ToJsonOptions(0, callDepth))>>) :
        engineDepth \in Depths, callDepth \in Depths,
        friend \in {Chain(NObjs), Ring},
        serializer \in {"none", "maskEmail"},
        hi \in {<<1, <<>>>>, <<2, <<Ref(NObjs)>>>>, <<2, <<Ref(NObjs), Ref(1)>>>>},
        crs \in Handlers }

\* One global serializer, and a value of its type as root, as field value and
\* as element of an array
SerializerScenarios ==
    { Scenario(Heap(<<"id", "registeredAt", "email", "items", "friend">>,
                    Shape(Chain(2), 0, 1), items),
               <<NewOp(Plain),
                 RegisterOp(1, reg[1], reg[2], FALSE),
                 ToJsonOp(1, target, NoOptions)>>) :
        reg \in {<<"Date", "dateSerializer">>, <<"String", "maskEmail">>,
                 <<"User", "userSerializer">>},
        items \in {<<>>, <<Ref(DateAddr)>>, <<Str(7)>>, <<Ref(2)>>},
        target \in {Ref(1), Ref(DateAddr), Str(5), Ref(ItemsAddr)} }

\* Two engines, and the same object serialized by its toJSON method and by
\* toJson of the engine constructed last among those whose models hold User
EngineOptions ==
    { PathOptions("toJson", "none"),
      PathOptions("models", "none"),
      PathOptions("models", "pascal"),
      PathOptions("sequelize", "none"),
      [PathOptions("models", "none") EXCEPT !.keepNulls = TRUE],
      [PathOptions("models", "none") EXCEPT !.maxDepth = 1],
      [PathOptions("models", "none") EXCEPT !.circularReferenceSerializer =
                                                "serializeCircularReference"] }
HasModel(opts, model) == \E n \in 1..Len(opts.models) : opts.models[n] = model

EquivalenceScenarios ==
    { Scenario(Heap(<<"id", "secret", "friend", "email">>, Shape(friend, 0, 0), <<>>),
               <<JsonFieldOp("User", "secret", "false", "none"),
                 JsonFieldOp("User", "email", "showEmailOnlyToOwner", "maskEmail"),
                 NewOp(eo[1]), NewOp(eo[2]),
                 ToJSONOp(Ref(1), options),
                 ToJsonOp(IF HasModel(eo[2], "User") THEN 2 ELSE 1, Ref(1), options)>>) :
        eo \in {x \in EngineOptions \X EngineOptions :
                  HasModel(x[1], "User") \/ HasModel(x[2], "User")},
        friend \in {Chain(2), Ring},
        options \in {NoOptions, ToJsonOptions(1, 1), ToJsonOptions(2, Unset)} }

\* One graph serialized by an engine without global serializer and then by an
\* engine on which sequelizeInstall registered its serializer for User; class
\* User has a schema (one decorated field) or none
Decorators(withSchema) ==
    IF withSchema THEN <<JsonFieldOp("User", "id", "true", "none")>> ELSE <<>>
ReentryScenarios ==
    { Scenario(Heap(<<"id", "friend", "items">>, Shape(g[1], 0, 1), g[2]),
               Decorators(withSchema) \o
               <<NewOp([Plain EXCEPT !.circularReferenceSerializer = crs]),
                 ToJsonOp(1, Ref(1), ToJsonOptions(0, callDepth)),
                 NewOp([Plain EXCEPT !.circularReferenceSerializer = crs,
                                     !.sequelize = <<"User">>]),
                 ToJsonOp(2, Ref(1), ToJsonOptions(0, callDepth))>>) :
        g \in (ChainGraphs \X {<<>>})
               \cup ({NoFriends, Ring} \X {<<Ref(2)>>, <<Ref(2), Ref(1)>>}),
        withSchema \in BOOLEAN, crs \in Handlers,
        callDepth \in {Unset, MaxDepthBound} }

\* A second registration for a class, with and without allowOverride, on an
\* engine that holds a serializer for Date and, with sequelize, one for User
DuplicateScenarios ==
    { Scenario(Heap(<<"id", "registeredAt", "friend">>, Shape(Chain(2), 0, 0), <<>>),
               <<NewOp([Plain EXCEPT !.sequelize = sequelize]),
                 RegisterOp(1, "Date", "dateSerializer", FALSE),
                 ToJsonOp(1, target, NoOptions),
                 RegisterOp(1, cls, fn, allow),
                 ToJsonOp(1, target, NoOptions)>>) :
        sequelize \in {<<>>, <<"User">>},
        cls \in {"Date", "User", "String"},
        fn \in {"dateSerializer", "overridingDateSerializer"},
        allow \in BOOLEAN,
        target \in {Ref(1), Ref(DateAddr)} }

\* Objects with a null field (nickname) and an undefined one (roommate), and
\* null and undefined themselves, on engines with and without keepNulls
NullScenarios ==
    { Scenario(Heap(layout, Shape(Chain(2), 0, 0), <<>>),
               <<JsonFieldOp("User", decorated, visible, serializer),
                 NewOp([PathOptions(path, "none") EXCEPT !.keepNulls = keepNulls]),
                 ToJsonOp(1, target, NoOptions)>>) :
        layout \in {<<"id", "nickname", "roommate", "friend">>,
                    <<"nickname", "friend", "id">>},
        decorated \in {"id", "nickname"},
        visible \in {"undefined", "false"},
        serializer \in {"none", "maskEmail"},
        keepNulls \in BOOLEAN, path \in Paths,
        target \in {Ref(1), Null, Undefined} }

\* Object 1 holding an array of primitive values, zero, the empty string and
\* false among them, with no serializer on the field or with one that is
\* applied to each element (countSerializer returns 0 for every value)
Primitives == {Num(0), Num(7), Str(0), Str(7), Bool(FALSE), Bool(TRUE)}
ElementScenarios ==
    { Scenario(Heap(<<"id", "items">>, Shape(NoFriends, 0, 1), si[2]),
               <<JsonFieldOp("User", "items", "true", si[1]),
                 NewOp(PathOptions(path, "none")),
                 ToJsonOp(1, Ref(1), NoOptions)>>) :
        si \in ({"none"} \X Lists(Primitives))
                \cup ({"maskEmail"} \X Lists({Str(7), Str(8)}))
                \cup ({"countSerializer"} \X Lists({Str(7), Num(7)})),
        path \in {"toJson", "models"} }

\* A string, a number or a boolean as the target of toJson, on engines of
\* every configuration, with a global serializer for Date, String or Number
PrimitiveScenarios ==
    { Scenario(Heap(<<"id">>, Shape(NoFriends, 0, 0), <<>>),
               <<NewOp(opts),
                 RegisterOp(1, reg[1], reg[2], FALSE),
                 ToJsonOp(1, target, options)>>) :
        opts \in EngineOptions,
        reg \in {<<"Date", "dateSerializer">>, <<"String", "maskEmail">>,
                 <<"Number", "countSerializer">>},
        target \in Primitives,
        options \in {NoOptions, ToJsonOptions(1, 1)} }

\* The big integers 0, 123, -123 and those within MaxDelta of 2^53 and of -2^53
NearLimit(sign, d) ==
    IF d >= 0 THEN BigInt(sign, Limb \div 2, d) ELSE BigInt(sign, Limb \div 2 - 1, Limb + d)
BigInts ==
    {BigInt(0, 0, 0), BigInt(1, 0, 123), BigInt(-1, 0, 123)}
    \cup {NearLimit(sign, d) : sign \in {-1, 1}, d \in (0 - MaxDelta)..MaxDelta}

\* A big integer as the target of toJson and as the field serial of object 1,
\* with transformBigInt unset, true and false
BigIntScenarios ==
    { Scenario([Heap(<<"id", "serial">>, Shape(NoFriends, 0, 0), <<>>)
                   EXCEPT ![1].fields[2].value = b],
               <<NewOp([PathOptions(path, "none") EXCEPT !.transformBigInt = transform]),
                 ToJsonOp(1, IF asRoot THEN b ELSE Ref(1), NoOptions)>>) :
        b \in BigInts, transform \in {"undefined", "true", "false"},
        path \in {"toJson", "models"}, asRoot \in BOOLEAN }

\* The class of the tests on the case option, with a nested object
CaseScenarios ==
    { Scenario(Heap(layout, Shape(Chain(NObjs), 0, 0), <<>>),
               <<NewOp(PathOptions(path, case)),
                 PathCall(path, Ref(1), NoOptions)>>) :
        layout \in {<<"id", "user_name", "registeredAt", "friend">>,
                    <<"friend", "userName", "id">>},
        case \in {"none", "camel", "snake", "pascal"},
        path \in Paths }

\* A function of each declared parameter count from 0 to 5 in each place a
\* traversal function is evaluated: visibility rule and serializer of field
\* email, global serializer of String, circular-reference handler
Functions == {"noArgs", "maskEmail", "contextualMaskEmail", "legacyVisible",
              "showEmailOnlyToOwner", "fiveArgs"}
ArityScenarios ==
    { Scenario(Heap(<<"id", "friend", "email">>, Shape(friend, 0, 0), <<>>),
               <<JsonFieldOp("User", "email",
                             IF place = "visible" THEN fn ELSE "true",
                             IF place = "serializer" THEN fn ELSE "none"),
                 NewOp([Plain EXCEPT !.circularReferenceSerializer =
                                        IF place = "handler" THEN fn ELSE "none"]),
                 RegisterOp(1, IF place = "global" THEN "String" ELSE "Date",
                            IF place = "global" THEN fn ELSE "dateSerializer", FALSE),
                 ToJsonOp(1, Ref(1), ToJsonOptions(1, Unset))>>) :
        friend \in {Chain(2), Ring},
        place \in {"visible", "serializer", "global", "handler"},
        fn \in Functions }

\* A call with a context that invokes a visibility rule and a serializer of a
\* field, a global serializer, the serializer of a type (class Node, the class
\* of the last object of the chain) and, when object 1 is its own roommate, the
\* circular-reference handler; with sequelize, through the re-entrant serializer
ContextScenarios ==
    { Scenario([Heap(<<"id", "email", "secret", "roommate", "friend">>,
                     Shape(Chain(NObjs), roommate, 0), <<>>)
                   EXCEPT ![NObjs].class = "Node"],
               <<JsonSerializerOp("Node", "contextualSerializer"),
                 JsonFieldOp("User", "email", "showEmailOnlyToOwner", "contextualSerializer"),
                 NewOp([PathOptions(path, "none") EXCEPT !.circularReferenceSerializer = crs]),
                 RegisterOp(1, "String", "contextualMaskEmail", FALSE),
                 PathCall(path, Ref(1), ToJsonOptions(callerId, callDepth))>>) :
        roommate \in {0, 1},
        crs \in {"serializeCircularReference", "contextualSerializer"},
        path \in Paths, callerId \in 0..MaxCaller, callDepth \in {Unset, MaxDepthBound} }

\* A User whose friend is a Node, an object with a toJSON method of its own,
\* and whose field registeredAt is a Date; class Node or class User has a
\* schema through @JsonField, class Node has one or none through the models
\* option; Date or Node has a global serializer or none; each of the three
\* objects as the target of toJson
Registration(reg) ==
    IF reg = "none" THEN <<>>
    ELSE <<RegisterOp(1, reg, IF reg = "Date" THEN "dateSerializer" ELSE "userSerializer", FALSE)>>
ToJSONScenarios ==
    { Scenario([Heap(<<"id", "secret", "registeredAt", "friend">>,
                     Shape(Chain(2), 0, 0), <<>>)
                   EXCEPT ![2] = Cell("Node", <<Field("id", Num(2)),
                                                Field("user_name", Str(202)),
                                                Field("registeredAt", Ref(DateAddr))>>)],
               <<JsonFieldOp(decorated, IF decorated = "User" THEN "secret" ELSE "user_name",
                             "false", "none"),
                 NewOp([Plain EXCEPT !.case = case, !.models = models])>>
               \o Registration(reg)
               \o <<ToJsonOp(1, target, NoOptions)>>) :
        decorated \in {"User", "Node"},
        case \in {"none", "pascal"},
        models \in {<<>>, <<"Node">>},
        reg \in {"none", "Date", "Node"},
        target \in {Ref(1), Ref(2), Ref(DateAddr)} }

\* class Admin extends User: object 1 is a User and object 2 an Admin; the
\* decorators of User run before those of Admin (a class is defined before its
\* subclasses), a field may be decorated twice, and the models option names
\* either class or none; both objects are serialized
Decoration(cls, name, visible) ==
    IF name = "none" THEN <<>> ELSE <<JsonFieldOp(cls, name, visible, "none")>>
InheritanceScenarios ==
    { Scenario([Heap(<<"id", "secret", "email">>, Shape(NoFriends, 0, 0), <<>>)
                   EXCEPT ![2].class = "Admin"],
               Decoration("User", first, "false")
               \o Decoration("User", second[1], second[2])
               \o Decoration("Admin", third[1], third[2])
               \o <<NewOp([Plain EXCEPT !.models = models]),
                    ToJsonOp(1, Ref(1), NoOptions),
                    ToJsonOp(1, Ref(2), NoOptions)>>) :
        first \in {"none", "secret"},
        second \in {<<"none", "false">>, <<"secret", "true">>, <<"email", "false">>},
        third \in {<<"none", "false">>, <<"email", "false">>, <<"secret", "true">>,
                   <<"id", "false">>},
        models \in {<<>>, <<"User">>, <<"Admin">>} }

\* A plain object whose friend is a User; class User has a whole-type
\* serializer from @JsonSerializer, and the engine holds a global serializer
\* for User or none; the plain object or the User is the target
SchemaSerializerScenarios ==
    { Scenario([Heap(<<"id", "friend">>, Shape(Chain(2), 0, 0), <<>>)
                   EXCEPT ![1].class = "Object"],
               <<JsonSerializerOp("User", ofSchema), NewOp(Plain)>>
               \o Registration(global)
               \o <<ToJsonOp(1, target, ToJsonOptions(context, Unset))>>) :
        ofSchema \in {"overridingDateSerializer", "contextualSerializer"},
        global \in {"none", "User"},
        target \in {Ref(1), Ref(2)},
        context \in 0..1 }

Scenarios ==
    GraphScenarios \cup SequelizeScenarios \cup ArrayScenarios \cup VisibilityScenarios
    \cup ConditionalScenarios \cup DepthScenarios \cup SerializerScenarios
    \cup EquivalenceScenarios \cup ReentryScenarios \cup DuplicateScenarios
    \cup NullScenarios \cup ElementScenarios \cup PrimitiveScenarios
    \cup BigIntScenarios \cup CaseScenarios \cup ArityScenarios
    \cup ContextScenarios \cup ToJSONScenarios \cup InheritanceScenarios
    \cup SchemaSerializerScenarios

Init ==
    /\ \E sc \in Scenarios : heap = sc.heap /\ program = sc.program
    /\ pc = 1
    /\ schemas = <<>>
    /\ jsonSchema = [c \in Classes |-> 0]
    /\ toJSONHook = [c \in Classes |-> NoHook]
    /\ engines = <<>>
    /\ self = 0
    /\ stack = <<>>
    /\ mode = "idle"
    /\ ret = Undefined
    /\ st = NewState
    /\ results = <<>>
    /\ calls = <<>>

Spec == Init /\ [][Next]_vars

(***************************************************************************)
(* The visitation tracker on its own: a client that holds a VisitMap (the  *)
(* field visited of the state given to a traversal function of four        *)
(* parameters) and calls visit, dive and arise on it.  The tracker is      *)
(* st.visited; a result records what visit returned.                       *)
(***************************************************************************)
MaxOps == 5

VisitOp(value) == [Op("visit") EXCEPT !.target = value]
DiveOp == Op("dive")
AriseOp == Op("arise")

\* The values given to visit: objects, the array, null, undefined, a number, a
\* string, a boolean, a function, a symbol and a bigint
TrackerValues ==
    {Ref(1), Ref(2), Ref(ItemsAddr), Null, Undefined, Num(7), Str(0), Bool(TRUE), Func, Sym,
     BigInt(1, 0, 7)}
TrackerOps == {VisitOp(value) : value \in TrackerValues} \cup {DiveOp, AriseOp}

\* arise is called for a level that dive pushed, never for level 0
RECURSIVE WellNested(_, _)
WellNested(ops, depth) ==
    IF ops = <<>> THEN TRUE
    ELSE IF Head(ops).op = "dive" THEN WellNested(Tail(ops), depth + 1)
    ELSE IF Head(ops).op = "arise" THEN depth > 0 /\ WellNested(Tail(ops), depth - 1)
    ELSE WellNested(Tail(ops), depth)

\* The programs of a tracker client: two visits around any MaxOps - 2 operations
TrackerPrograms ==
    {<<VisitOp(first)>> \o middle \o <<VisitOp(last)>> :
        first \in {Ref(1), Null, Num(7), Func},
        middle \in {ops \in [1..(MaxOps - 2) -> {VisitOp(Ref(1)), VisitOp(Ref(2)), VisitOp(Null),
                                                 DiveOp, AriseOp}] : WellNested(ops, 0)},
        last \in TrackerValues}

TrackerInit ==
    /\ heap = Heap(<<"id">>, Shape(NoFriends, 0, 0), <<>>)
    /\ program \in TrackerPrograms
    /\ pc = 1
    /\ schemas = <<>>
    /\ jsonSchema = [c \in Classes |-> 0]
    /\ toJSONHook = [c \in Classes |-> NoHook]
    /\ engines = <<>>
    /\ self = 0
    /\ stack = <<>>
    /\ mode = "idle"
    /\ ret = Undefined
    /\ st = NewState
    /\ results = <<>>
    /\ calls = <<>>

TrackerFrame ==
    UNCHANGED <<heap, program, schemas, jsonSchema, toJSONHook, engines, self, stack, mode,
                ret, calls>>

\* state.visited.visit(value)
Visit ==
    /\ pc <= Len(program) /\ program[pc].op = "visit"
    /\ results' = Append(results,
          [kind |-> "return", op |-> pc, eng |-> 0,
           value |-> Bool(visitResult(st.visited, program[pc].target))])
    /\ st' = [st EXCEPT !.visited = visitMap(@, program[pc].target)]
    /\ pc' = pc + 1
    /\ TrackerFrame

\* state.visited.dive()
Dive ==
    /\ pc <= Len(program) /\ program[pc].op = "dive"
    /\ st' = [st EXCEPT !.visited = dive(@)]
    /\ pc' = pc + 1
    /\ UNCHANGED results
    /\ TrackerFrame

\* state.visited.arise()
Arise ==
    /\ pc <= Len(program) /\ program[pc].op = "arise"
    /\ st' = [st EXCEPT !.visited = arise(@)]
    /\ pc' = pc + 1
    /\ UNCHANGED results
    /\ TrackerFrame

TrackerNext == Visit \/ Dive \/ Arise

TrackerSpec == TrackerInit /\ [][TrackerNext]_vars

(***************************************************************************)
(* Inputs beyond the classes of the tests.  Cyclic graphs with arrays:     *)
(* object 1 holds the array at ItemsAddr, whose elements are objects or    *)
(* the array itself; the target of the call is the object or the array,    *)
(* with and without a depth limit and a handler.  Objects with two fields  *)
(* whose names differ by their case only, under each case option.          *)
(***************************************************************************)
SelfContaining(h, a) == \E i \in 1..Len(h[a].items) : h[a].items[i] = Ref(a)

CycleScenarios ==
    { Scenario(Heap(<<"id", "items", "friend">>, Shape(friend, 0, 1), items),
               <<NewOp([Plain EXCEPT !.maxDepth = engineDepth,
                                     !.circularReferenceSerializer = crs]),
                 ToJsonOp(1, target, NoOptions)>>) :
        friend \in {NoFriends, Ring},
        items \in Lists({Ref(1), Ref(NObjs), Ref(ItemsAddr)}),
        target \in {Ref(1), Ref(ItemsAddr)},
        engineDepth \in {Unset, 1}, crs \in Handlers }

\* Two fields that one casing function sends to one key, in both orders
CollisionScenarios ==
    { Scenario(Heap(layout, Shape(NoFriends, 0, 0), <<>>),
               <<NewOp(PathOptions("toJson", case)),
                 ToJsonOp(1, Ref(a), NoOptions)>>) :
        layout \in {<<"id", "user_name", "userName">>, <<"userName", "id", "user_name">>},
        case \in {"none", "camel", "snake", "pascal"},
        a \in Objs }

CornerScenarios == CycleScenarios \cup CollisionScenarios

CornerInit ==
    /\ \E sc \in CornerScenarios : heap = sc.heap /\ program = sc.program
    /\ pc = 1
    /\ schemas = <<>>
    /\ jsonSchema = [c \in Classes |-> 0]
    /\ toJSONHook = [c \in Classes |-> NoHook]
    /\ engines = <<>>
    /\ self = 0
    /\ stack = <<>>
    /\ mode = "idle"
    /\ ret = Undefined
    /\ st = NewState
    /\ results = <<>>
    /\ calls = <<>>

CornerNext ==
    \/ Constructor
    \/ CallToJson
    \/ ToJsonEnter
    \/ ToJsonField
    \/ SerializeEnter
    \/ SerializeTry
    \/ SerializeFinally
    \/ MapElement
    \/ Return
    \/ Unwind
    \/ Finish

CornerSpec == CornerInit /\ [][CornerNext]_vars

(***************************************************************************)
(* Reference semantics of a structural traversal, used to state the        *)
(* claims: the JSON tree expected for a value, computed from the object    *)
(* graph by recursion on the path of ancestors (no tracker, no stack).     *)
(* It covers programs whose only policies are static visibilities and      *)
(* whose only registered serializers are those of sequelizeInstall.        *)
(***************************************************************************)
StructuralProgram ==
    \A n \in 1..Len(program) :
        /\ program[n].op \notin {"register", "JsonSerializer"}
        /\ program[n].op = "new" =>
              \A m \in 1..Len(program[n].opts.sequelize) :
                 \E q \in 1..Len(program[n].opts.models) :
                    program[n].opts.models[q] = program[n].opts.sequelize[m]
        /\ program[n].op = "JsonField" =>
              /\ program[n].policy.serializer = "none"
              /\ program[n].policy.visible \in {"true", "false", "undefined"}

IsError(x) == x.t = "CircularReferenceError"

\* The first error among the values of a sequence, Undefined when there is none
RECURSIVE FirstError(_)
FirstError(xs) ==
    IF xs = <<>> THEN Undefined
    ELSE IF IsError(Head(xs)) THEN Head(xs)
    ELSE FirstError(Tail(xs))

\* Is the object at address a traversed field by field, or returned as it is
\* (a Date, or a Node, which has a toJSON method, when its class has no schema)?
Traversable(a) ==
    \/ heap[a].class \in {"User", "Admin", "Object"}
    \/ heap[a].class = "Node" /\ JsonSchemaIsPresent(jsonSchema, "Node")

\* The policy registered for field `name` of the object at address a
PolicyOf(a, name) == FieldOptions(schemas, JsonSchemaGet(jsonSchema, heap[a].class), name)

RECURSIVE ExpectValue(_, _, _, _, _)
RECURSIVE ExpectObject(_, _, _, _, _)
RECURSIVE ExpectFields(_, _, _, _, _, _)
RECURSIVE ExpectItems(_, _, _, _, _, _)

\* The serialization of `value` met at nesting level d under the ancestors anc,
\* on engine options eo with depth limit k and schema lookup by class.
ExpectValue(eo, k, anc, value, d) ==
    IF value \in {Null, Undefined} THEN (IF eo.keepNulls THEN Null ELSE Undefined)
    ELSE IF value.t = "object" /\ heap[value.v].class = "Array"
    THEN LET items == ExpectItems(eo, k, anc, heap[value.v].items, 1, d)
         IN IF IsError(FirstError(items)) THEN FirstError(items) ELSE JsonArray(items)
    ELSE IF value.t \in {"symbol", "function"} THEN Undefined
    ELSE IF value.t = "bigint"
    THEN serializeTrivialValue(heap, toJSONHook, jsonSchema, value, eo).value
    ELSE IF value.t # "object" \/ ~Traversable(value.v) THEN value
    ELSE IF d > k THEN Undefined
    ELSE IF value.v \in anc
    THEN IF eo.circularReferenceSerializer = "none"
         THEN V("CircularReferenceError", value.v)
         ELSE JsonObject(<<[k |-> "$ref", j |-> V("refName", value.v)]>>)
    ELSE ExpectObject(eo, k, anc \cup {value.v}, value.v, d)

\* The object at address a, itself at level d: its visible fields at level d + 1
ExpectObject(eo, k, anc, a, d) ==
    ExpectFields(eo, k, anc, a, 1, d)

ExpectFields(eo, k, anc, a, n, d) ==
    IF n > Len(heap[a].fields) THEN JsonObject(<<>>)
    ELSE LET name == heap[a].fields[n].name
             policy == PolicyOf(a, name)
             x == IF policy.visible = "false" THEN Undefined
                  ELSE ExpectValue(eo, k, anc, heap[a].fields[n].value, d + 1)
             rest == ExpectFields(eo, k, anc, a, n + 1, d)
         IN IF IsError(x) THEN x
            ELSE IF IsError(rest) THEN rest
            ELSE IF x = Undefined THEN rest
            ELSE JsonObject(<<[k |-> propertyNameToString(eo, name), j |-> x]>> \o rest.kids)

ExpectItems(eo, k, anc, items, n, d) ==
    IF n > Len(items) THEN <<>>
    ELSE LET x == ExpectValue(eo, k, anc, items[n], d)
         IN <<IF x \in {Undefined, Num(0), Str(0), Bool(FALSE)} THEN Null ELSE x>>
            \o ExpectItems(eo, k, anc, items, n + 1, d)

\* The depth limit in force for a call: the option of the call when it is a
\* positive number, else the one of the engine, else none.
LimitOf(options, eo) ==
    IF options.maxDepth > 0 THEN options.maxDepth
    ELSE IF eo.maxDepth > 0 THEN eo.maxDepth
    ELSE Infinity

\* What a top-level call on an object (not null, not an array) is expected to give
ExpectRoot(eo, options, target) ==
    ExpectObject(eo, LimitOf(options, eo), {target.v}, target.v, 0)

\* The engine and the outcome of the operation at index n of the program
ResultsOf(n) == {m \in 1..Len(results) : results[m].op = n}
Outcome(n) == results[CHOOSE m \in ResultsOf(n) : TRUE]
EngineOf(n) == IF ResultsOf(n) # {} THEN Outcome(n).eng ELSE self
IsCall(n) == program[n].op \in {"toJson", "toJSON"}
Finished(n) == IsCall(n) /\ ResultsOf(n) # {}
Running(n) == IsCall(n) /\ pc = n /\ mode # "idle"
ExpectedOf(n) == ExpectRoot(engines[EngineOf(n)].options, program[n].options, program[n].target)

\* The objects a value holds directly: itself when it is traversed, the elements
\* of an array (arrays add no level)
RECURSIVE RefsIn(_)
RefsIn(value) ==
    IF value.t # "object" THEN {}
    ELSE IF heap[value.v].class = "Array"
    THEN UNION {RefsIn(heap[value.v].items[n]) : n \in 1..Len(heap[value.v].items)}
    ELSE IF Traversable(value.v) THEN {value.v}
    ELSE {}

\* The objects held by the visible fields of the object at address a
Succ(a) ==
    UNION {RefsIn(heap[a].fields[n].value) :
             n \in {m \in 1..Len(heap[a].fields) :
                      PolicyOf(a, heap[a].fields[m].name).visible # "false"}}

Range(p) == {p[n] : n \in 1..Len(p)}

\* The paths without repetition that extend path p
RECURSIVE SimplePaths(_)
SimplePaths(p) ==
    {p} \cup UNION {SimplePaths(Append(p, b)) : b \in Succ(p[Len(p)]) \ Range(p)}

\* Some reference at nesting level at most k leads back to an object of its own path
HasCycleWithin(root, k) ==
    \E p \in SimplePaths(<<root>>) : Len(p) <= k /\ Succ(p[Len(p)]) \cap Range(p) # {}

IsUser(value) == value.t = "object" /\ heap[value.v].class = "User"
HandlerOf(n) == engines[EngineOf(n)].options.circularReferenceSerializer
LimitAt(n) == LimitOf(program[n].options, engines[EngineOf(n)].options)
HandlerCalls(n) ==
    {m \in 1..Len(calls) : calls[m].op = n /\ calls[m].fn = "serializeCircularReference"}
\* Does the JSON value j contain, at any level, a key k?
RECURSIVE HasKey(_, _)
HasKey(j, key) ==
    \/ /\ j.t = "json"
       /\ \E n \in 1..Len(j.kids) : (j.kids[n].k = key \/ HasKey(j.kids[n].j, key))
    \/ /\ j.t = "list"
       /\ \E n \in 1..Len(j.kids) : HasKey(j.kids[n], key)

(***************************************************************************)
(* Claims                                                                  *)
(***************************************************************************)

\* C3: with no circularReferenceSerializer, a call on a graph that has a cycle
\* within the depth limit throws CircularReferenceError, and the ref of the error
\* is the object the traversal meets again first; nothing is returned.
C3_CycleRaises ==
    \A n \in 1..Len(program) :
        (/\ Finished(n) /\ StructuralProgram /\ IsUser(program[n].target)
         /\ HandlerOf(n) = "none"
         /\ HasCycleWithin(program[n].target.v, LimitAt(n)))
        => /\ Outcome(n).kind = "throw"
           /\ IsError(Outcome(n).value)
           /\ Outcome(n).value = ExpectedOf(n)

\* C3 witness: a call without handler ended on a cycle that closes two levels
\* below the root, on an object other than the root
C3_Witness ==
    \E n \in 1..Len(program) :
        /\ Finished(n) /\ StructuralProgram /\ HandlerOf(n) = "none"
        /\ Outcome(n).kind = "throw" /\ IsError(Outcome(n).value)
        /\ Outcome(n).value.v # program[n].target.v
        /\ ~HasCycleWithin(program[n].target.v, 2)

\* C4: with a circularReferenceSerializer no call throws CircularReferenceError,
\* and the call returns the tree in which every reference back to an object of
\* the current path is the handler's result for it, every other value being
\* serialized as usual.
C4_HandlerSubstitutes ==
    \A n \in 1..Len(program) :
        (Finished(n) /\ HandlerOf(n) # "none")
        => /\ ~IsError(Outcome(n).value)
           /\ (StructuralProgram /\ IsUser(program[n].target))
                 => /\ Outcome(n).kind = "return"
                    /\ Outcome(n).value = ExpectedOf(n)

\* C4 witness: a call with handler returned a tree holding a handler result
C4_Witness ==
    \E n \in 1..Len(program) :
        /\ Finished(n) /\ StructuralProgram /\ HandlerOf(n) # "none"
        /\ HasCycleWithin(program[n].target.v, LimitAt(n))
        /\ Outcome(n).kind = "return" /\ HasKey(Outcome(n).value, "$ref")

\* C5: on a graph without cycle, however its objects are shared, a call neither
\* throws nor invokes the circular-reference handler, and returns the plain
\* unfolding of the graph: a shared object appears in full at each occurrence.
C5_SharedNotCircular ==
    \A n \in 1..Len(program) :
        (/\ IsCall(n) /\ (Running(n) \/ Finished(n))
         /\ StructuralProgram /\ IsUser(program[n].target)
         /\ ~HasCycleWithin(program[n].target.v, Infinity))
        => /\ HandlerCalls(n) = {}
           /\ Running(n) => mode # "throw"
           /\ Finished(n) => (/\ Outcome(n).kind = "return"
                              /\ Outcome(n).value = ExpectedOf(n))

\* C5 witness: a call returned a tree in which one object appears under two
\* sibling fields
C5_Witness ==
    \E n \in 1..Len(program) :
        /\ Finished(n) /\ StructuralProgram /\ IsUser(program[n].target)
        /\ ~HasCycleWithin(program[n].target.v, Infinity)
        /\ Outcome(n).kind = "return"
        /\ \E a, b \in 1..Len(Outcome(n).value.kids) :
              /\ a # b
              /\ Outcome(n).value.kids[a].j.t = "json"
              /\ Outcome(n).value.kids[a].j = Outcome(n).value.kids[b].j

(***************************************************************************)
(* Reading an output tree.                                                 *)
(***************************************************************************)
Keys(o) == {o.kids[n].k : n \in 1..Len(o.kids)}
ValueAt(o, key) ==
    LET idx == {n \in 1..Len(o.kids) : o.kids[n].k = key}
    IN IF idx = {} THEN Undefined ELSE o.kids[CHOOSE n \in idx : TRUE].j

\* The objects of the tree j, each with its nesting level (arrays add no level)
RECURSIVE Nodes(_, _)
Nodes(j, d) ==
    IF j.t = "json"
    THEN {[d |-> d, o |-> j]} \cup UNION {Nodes(j.kids[n].j, d + 1) : n \in 1..Len(j.kids)}
    ELSE IF j.t = "list" THEN UNION {Nodes(j.kids[n], d) : n \in 1..Len(j.kids)}
    ELSE {}

\* Does the tree j hold, at any level, an input value of class c left as it was?
RECURSIVE HasRaw(_, _)
HasRaw(j, c) ==
    \/ j.t \in {"object", "number", "string", "boolean"} /\ ConstructorOf(heap, j) = c
    \/ /\ j.t = "json"
       /\ \E n \in 1..Len(j.kids) : HasRaw(j.kids[n].j, c)
    \/ /\ j.t = "list"
       /\ \E n \in 1..Len(j.kids) : HasRaw(j.kids[n], c)

\* The policy registered for field `name` of class User, and the output key of
\* the field on the engine of operation n
UserPolicy(name) == FieldOptions(schemas, JsonSchemaGet(jsonSchema, "User"), name)
Registered(name) ==
    /\ JsonSchemaGet(jsonSchema, "User") # 0
    /\ name \in DOMAIN schemas[JsonSchemaGet(jsonSchema, "User")].definedFields
KeyAt(n, name) == propertyNameToString(engines[EngineOf(n)].options, name)
FieldNames == {heap[1].fields[n].name : n \in 1..Len(heap[1].fields)}
\* The User objects shown in the output of operation n: those that show their id
Shown(n) == {x \in Nodes(Outcome(n).value, 0) : KeyAt(n, "id") \in Keys(x.o)}
IdOf(n, x) == ValueAt(x.o, KeyAt(n, "id")).v
Returned(n) == Finished(n) /\ Outcome(n).kind = "return"
\* Every field is visible and the engine of operation n has no serializer of its
\* own making in its registry
AllVisible == \A name \in FieldNames : UserPolicy(name).visible \in {"true", "undefined"}
NoGlobalSerializer(n) ==
    \A c \in Classes :
        engines[EngineOf(n)].serializers[c].fn \in {"none", "sequelizeSerializer"}

\* C1: a field whose policy is visible=false is a key of no object of any output,
\* partial or final, of toJson or of an installed toJSON, whatever its value and
\* wherever its object is traversed; a field with no registered policy is shown.
C1_HiddenNeverAppears ==
    /\ \A name \in FieldNames :
          UserPolicy(name).visible = "false" =>
             /\ \A n \in 1..Len(stack) :
                   stack[n].op = "fields" =>
                      propertyNameToString(engines[self].options, name)
                         \notin {stack[n].acc[m].k : m \in 1..Len(stack[n].acc)}
             /\ \A n \in 1..Len(program) :
                   Finished(n) => ~HasKey(Outcome(n).value, KeyAt(n, name))
    /\ \A n \in 1..Len(program) :
          (Returned(n) /\ IsUser(program[n].target) /\ Outcome(n).value.t = "json") =>
             \A name \in FieldNames :
                (~Registered(name) /\ GetField(heap, 1, name).t \in {"number", "string"})
                => KeyAt(n, name) \in Keys(Outcome(n).value)

\* C1 witness: the installed toJSON returned a tree for a class whose field
\* friend (an object) is hidden: the root and the object in its array show
\* their id, which has no policy, and nothing shows friend.
C1_Witness ==
    \E n \in 1..Len(program) :
        /\ program[n].op = "toJSON" /\ Returned(n)
        /\ UserPolicy("friend").visible = "false"
        /\ GetField(heap, 1, "friend") # Undefined
        /\ Cardinality(Shown(n)) >= 2

\* C2: under the rule visible = (callerId = state.parent.id) on email, whenever
\* a field of an object O is processed state.parent is O, and every object of
\* the output shows email iff callerId is its id, wherever email is declared.
C2_EmailIffOwner ==
    (/\ UserPolicy("email").visible = "showEmailOnlyToOwner"
     /\ UserPolicy("email").serializer = "none")
    => /\ (mode = "step" /\ Top.op = "fields" /\ Top.i <= Len(heap[Top.val.v].fields)) =>
             ParentId(heap, st) = GetField(heap, Top.val.v, "id")
       /\ \A n \in 1..Len(program) :
             Returned(n) =>
                \A x \in Shown(n) :
                   (KeyAt(n, "email") \in Keys(x.o))
                   <=> (CallerId(program[n].options) = Num(IdOf(n, x)))

\* C2 witness (of the case the claim's test covers): email declared before
\* friend, and a nested object shows its email to its owner.
C2_Witness ==
    \E n \in 1..Len(program) :
        /\ Returned(n) /\ UserPolicy("email").visible = "showEmailOnlyToOwner"
        /\ \E x \in Shown(n) : x.d = 1 /\ KeyAt(n, "email") \in Keys(x.o)

\* C6: with effective maxDepth k and no error due, a call returns; an object is
\* in the output only at a level d <= k, it shows its trivial fields id and
\* email, it shows its nested object when d < k and not when d = k.
C6_DepthLimit ==
    \A n \in 1..Len(program) :
        (/\ Finished(n) /\ IsUser(program[n].target) /\ AllVisible /\ NoGlobalSerializer(n)
         /\ (HandlerOf(n) # "none" \/ ~HasCycleWithin(program[n].target.v, LimitAt(n))))
        => /\ Outcome(n).kind = "return"
           /\ \A x \in Shown(n) :
                 /\ x.d <= LimitAt(n)
                 /\ \A name \in {"id", "email"} \cap FieldNames : KeyAt(n, name) \in Keys(x.o)
                 /\ (x.d < LimitAt(n) /\ IsUser(GetField(heap, IdOf(n, x), "friend")))
                       => KeyAt(n, "friend") \in Keys(x.o)
                 /\ x.d = LimitAt(n) => KeyAt(n, "friend") \notin Keys(x.o)

\* The depth limit of a call as C7 reads it: the option of the call when set,
\* else the option of the engine when set, else none
ClaimedLimit(options, engineOptions) ==
    IF options.maxDepth # Unset THEN options.maxDepth
    ELSE IF engineOptions.maxDepth # Unset THEN engineOptions.maxDepth
    ELSE Infinity

\* C7: the outcome of a call is the one of a traversal limited to the call's
\* maxDepth when it is set, whatever its value (0 included), else to the
\* engine's maxDepth when it is set, else not limited.
C7_CallOptionWins ==
    \A n \in 1..Len(program) :
        (Finished(n) /\ StructuralProgram /\ IsUser(program[n].target))
        => Outcome(n).value =
              ExpectObject(engines[EngineOf(n)].options,
                           ClaimedLimit(program[n].options, engines[EngineOf(n)].options),
                           {program[n].target.v}, program[n].target.v, 0)

\* C7 witness (of the case the claim's test covers): a call limited by its own
\* option, smaller than the engine's, returned a tree no deeper than it.
C7_Witness ==
    \E n \in 1..Len(program) :
        /\ Returned(n) /\ StructuralProgram
        /\ program[n].options.maxDepth = 1
        /\ engines[EngineOf(n)].options.maxDepth = 2
        /\ \A x \in Shown(n) : x.d <= 1
        /\ \E x \in Shown(n) : x.d = 1

\* The array the object of id a holds in field items, <<>> when it holds none
ItemsOf(a) ==
    IF IsArray(heap, GetField(heap, a, "items"))
    THEN heap[GetField(heap, a, "items").v].items ELSE <<>>
HoldsItems(a) == IsArray(heap, GetField(heap, a, "items"))
PrunedScope(n) ==
    /\ Returned(n) /\ IsUser(program[n].target) /\ AllVisible /\ NoGlobalSerializer(n)

\* C8 (as the code has it): a field value pruned by the depth limit leaves no
\* key in its object; a pruned element of an array is replaced by null, and the
\* output array has the length of the input array.
C8_PrunedElementIsNull ==
    \A n \in 1..Len(program) :
        PrunedScope(n) =>
           \A x \in Shown(n) :
              /\ (x.d = LimitAt(n) /\ IsUser(GetField(heap, IdOf(n, x), "friend")))
                    => KeyAt(n, "friend") \notin Keys(x.o)
              /\ HoldsItems(IdOf(n, x)) =>
                    LET list == ValueAt(x.o, KeyAt(n, "items"))
                        items == ItemsOf(IdOf(n, x))
                    IN /\ list.t = "list"
                       /\ Len(list.kids) = Len(items)
                       /\ x.d = LimitAt(n) =>
                             \A i \in 1..Len(items) : IsUser(items[i]) => list.kids[i] = Null

\* C8 witness: an object at the depth limit holds an array of two objects, both
\* pruned
C8_Witness ==
    \E n \in 1..Len(program) :
        /\ PrunedScope(n)
        /\ \E x \in Shown(n) :
              /\ x.d = LimitAt(n) /\ Len(ItemsOf(IdOf(n, x))) = 2
              /\ ValueAt(x.o, KeyAt(n, "items")) = JsonArray(<<Null, Null>>)

\* C8 (as stated): a pruned element of an array leaves no element, so an array
\* of objects held at the depth limit comes out empty.
C8_PrunedElementOmitted ==
    \A n \in 1..Len(program) :
        PrunedScope(n) =>
           \A x \in Shown(n) :
              (/\ x.d = LimitAt(n) /\ HoldsItems(IdOf(n, x))
               /\ \A i \in 1..Len(ItemsOf(IdOf(n, x))) : IsUser(ItemsOf(IdOf(n, x))[i]))
              => ValueAt(x.o, KeyAt(n, "items")) = JsonArray(<<>>)

\* C9: when the engine has a global serializer for a class, no value of the
\* class is left as it was in the output of toJson: as root, as field value and
\* as element of an array, the serializer's result stands in its place.
C9_GlobalSerializerApplied ==
    \A n \in 1..Len(program) :
        (Returned(n) /\ program[n].op = "toJson") =>
           \A c \in {"Date", "String", "User"} :
              engines[EngineOf(n)].serializers[c].fn \notin {"none", "sequelizeSerializer"}
              => ~HasRaw(Outcome(n).value, c)

\* C9 witness (of the cases that hold): the serializer registered for Date gave
\* the value of a Date field of the root.
C9_Witness ==
    \E n \in 1..Len(program) :
        /\ Returned(n) /\ program[n].op = "toJson" /\ IsUser(program[n].target)
        /\ engines[EngineOf(n)].serializers["Date"].fn = "dateSerializer"
        /\ ValueAt(Outcome(n).value, KeyAt(n, "registeredAt")) = V("isoString", DateAddr)

\* The engine constructed last among those whose models hold `model` (0: none)
LatestWithModel(model) ==
    LET holders == {e \in 1..Len(engines) : HasModel(engines[e].options, model)}
    IN IF holders = {} THEN 0 ELSE CHOOSE e \in holders : \A d \in holders : d <= e

RegisteredFor(e, c) == engines[e].serializers[c].fn
\* Two operations are the same call, made on two engines
SameCall(m, n) ==
    /\ program[m].op = "toJson" /\ program[n].op = "toJson"
    /\ program[m].target = program[n].target
    /\ program[m].options = program[n].options

\* C11: a graph serialized by an engine whose global serializer for the node
\* class re-enters toJson(copy, options, state, schema) ends as it does on an
\* engine of the same options without the serializer: the same tree or the same
\* CircularReferenceError.
C11_ReentrySame ==
    \A m, n \in 1..Len(program) :
        (/\ SameCall(m, n) /\ Finished(m) /\ Finished(n)
         /\ IsUser(program[n].target)
         /\ RegisteredFor(EngineOf(m), "User") = "none"
         /\ RegisteredFor(EngineOf(n), "User") = "sequelizeSerializer"
         /\ [engines[EngineOf(n)].options EXCEPT !.sequelize = <<>>]
               = engines[EngineOf(m)].options)
        => /\ Outcome(m).kind = Outcome(n).kind
           /\ Outcome(m).value = Outcome(n).value

\* C11 witness (of the cases that hold): both engines stopped with the same
\* error on a cycle that passes through a second object.
C11_Witness ==
    \E m, n \in 1..Len(program) :
        /\ SameCall(m, n) /\ Finished(m) /\ Finished(n)
        /\ RegisteredFor(EngineOf(m), "User") = "none"
        /\ RegisteredFor(EngineOf(n), "User") = "sequelizeSerializer"
        /\ Outcome(n).kind = "throw" /\ IsError(Outcome(n).value)
        /\ GetField(heap, program[n].target.v, "friend") # program[n].target
        /\ Outcome(m) = [Outcome(n) EXCEPT !.op = m, !.eng = EngineOf(m)]
\* The serializer of class c on engine e before operation n of the program, as
\* C12 has it: the one of sequelizeInstall, then every registration that met no
\* entry or allowed the override.
RECURSIVE ClaimedSerializer(_, _, _)
ClaimedSerializer(e, c, n) ==
    IF n <= 1 THEN "none"
    ELSE LET o == program[n - 1]
             before == ClaimedSerializer(e, c, n - 1)
             news == Cardinality({m \in 1..(n - 1) : program[m].op = "new"})
         IN IF o.op = "new" /\ news = e
            THEN (IF HasModel([models |-> o.opts.sequelize], c)
                  THEN "sequelizeSerializer" ELSE "none")
            ELSE IF o.op = "register" /\ o.eng = e /\ o.cls = c
                    /\ (before = "none" \/ o.allow)
            THEN o.fn
            ELSE before
\* Was the registration at operation n a duplicate without allowOverride?
Duplicate(n) ==
    /\ program[n].op = "register" /\ ~program[n].allow
    /\ ClaimedSerializer(program[n].eng, program[n].cls, n) # "none"
RegisteredFns == {program[n].fn : n \in {m \in 1..Len(program) : program[m].op = "register"}}
\* No class has a whole-type serializer from @JsonSerializer
NoSchemaSerializer == \A n \in 1..Len(program) : program[n].op # "JsonSerializer"

\* C12: a registration for a class that has a serializer, without
\* allowOverride, throws an error naming the class and changes no entry of the
\* registry; any other registration throws nothing and sets the entry; a toJson
\* call invokes, for a value of a class, the serializer so registered, and as
\* root the value of a class with a registered serializer (and no serializer
\* on its schema) gives its result.
C12_DuplicateRejected ==
    /\ \A e \in 1..Len(engines) : \A c \in Classes :
           RegisteredFor(e, c) = ClaimedSerializer(e, c, pc)
    /\ \A n \in 1..Len(program) :
           (program[n].op = "register" /\ pc > n) =>
              IF Duplicate(n)
              THEN /\ ResultsOf(n) # {}
                   /\ Outcome(n).kind = "throw"
                   /\ Outcome(n).value.t = "Error: Serializer already registered for"
                   /\ Outcome(n).value.name = program[n].cls
              ELSE ResultsOf(n) = {}
    /\ \A m \in 1..Len(calls) :
           (program[calls[m].op].op = "toJson" /\ calls[m].fn \in RegisteredFns) =>
              calls[m].fn = ClaimedSerializer(program[calls[m].op].eng,
                                              ConstructorOf(heap, calls[m].value), calls[m].op)
    /\ \A n \in 1..Len(program) :
           (/\ program[n].op = "toJson" /\ Finished(n) /\ RegisteredFns # {}
            /\ NoSchemaSerializer
            /\ ClaimedSerializer(program[n].eng, ConstructorOf(heap, program[n].target), n)
                  \in RegisteredFns)
           => /\ Outcome(n).kind = "return"
              /\ Outcome(n).value =
                    FnBody(ClaimedSerializer(program[n].eng,
                                             ConstructorOf(heap, program[n].target), n),
                           heap, NewState, program[n].target, program[n].options)

\* C12 witness: a duplicate registration for Date was rejected, and the call
\* after it returned the result of the serializer registered first.
C12_Witness ==
    \E n \in 1..Len(program) :
        /\ Duplicate(n) /\ program[n].cls = "Date" /\ program[n].fn = "overridingDateSerializer"
        /\ ResultsOf(n) # {} /\ Outcome(n).value.name = "Date"
        /\ \E q \in (n + 1)..Len(program) :
              /\ Returned(q) /\ IsUser(program[q].target)
              /\ ValueAt(Outcome(q).value, "registeredAt") = V("isoString", DateAddr)

\* C12 witness of the override: a registration with allowOverride replaced the
\* serializer of Date, and the call after it returned the result of the new one.
C12_OverrideWitness ==
    \E n \in 1..Len(program) :
        /\ program[n].op = "register" /\ program[n].allow /\ pc > n
        /\ ClaimedSerializer(program[n].eng, "Date", n) = "dateSerializer"
        /\ program[n].cls = "Date" /\ program[n].fn = "overridingDateSerializer"
        /\ \E q \in (n + 1)..Len(program) :
              /\ Returned(q) /\ IsUser(program[q].target)
              /\ ValueAt(Outcome(q).value, "registeredAt") = V("utcString", DateAddr)

\* The fields of the object at address a whose value is null or undefined and
\* whose policy does not hide them
NullFields(a) ==
    {heap[a].fields[i].name :
        i \in {m \in 1..Len(heap[a].fields) :
                 /\ isNull(heap[a].fields[m].value)
                 /\ PolicyOf(a, heap[a].fields[m].name).visible \in {"true", "undefined"}}}
KeepNulls(n) == engines[EngineOf(n)].options.keepNulls

\* C13: with keepNulls, toJson(null) and toJson(undefined) return null and every
\* visible field whose value is null or undefined is in its object with value
\* null, at every level; without keepNulls the calls return undefined and no
\* such field is a key of its object.
C13_NullPolicy ==
    \A n \in 1..Len(program) :
        /\ (Finished(n) /\ isNull(program[n].target)) =>
              /\ Outcome(n).kind = "return"
              /\ Outcome(n).value = IF KeepNulls(n) THEN Null ELSE Undefined
        /\ (Returned(n) /\ IsUser(program[n].target)) =>
              \A x \in Shown(n) : \A name \in NullFields(IdOf(n, x)) :
                 IF KeepNulls(n)
                 THEN /\ KeyAt(n, name) \in Keys(x.o)
                      /\ ValueAt(x.o, KeyAt(n, name)) = Null
                 ELSE KeyAt(n, name) \notin Keys(x.o)

\* C13 witness: with keepNulls a nested object shows its null field and its
\* undefined field as null.
C13_Witness ==
    \E n \in 1..Len(program) :
        /\ Returned(n) /\ KeepNulls(n)
        /\ \E x \in Shown(n) :
              /\ x.d = 1 /\ {"nickname", "roommate"} \subseteq NullFields(IdOf(n, x))
              /\ ValueAt(x.o, "nickname") = Null /\ ValueAt(x.o, "roommate") = Null

\* C13 witness of the roots: toJson(undefined) returned null on an engine with
\* keepNulls.
C13_RootWitness ==
    \E n \in 1..Len(program) :
        /\ Returned(n) /\ KeepNulls(n) /\ program[n].target = Undefined
        /\ Outcome(n).value = Null

\* The serialization of the element e of an array held by a field with policy
\* `field`, as C14 has it: the result of the field serializer for e when there
\* is one, else e itself when it is a number, a string or a boolean
IsPrimitive(e) == e.t \in {"number", "string", "boolean"}
PerValue(field, e, options) ==
    IF field.serializer # "none" THEN FnBody(field.serializer, heap, NewState, e, options)
    ELSE e
ElementScope(n) ==
    /\ Returned(n) /\ IsUser(program[n].target) /\ NoGlobalSerializer(n)
    /\ UserPolicy("items").visible \in {"true", "undefined"}

\* C14: the output of a field holding an array has the length of the array, and
\* its i-th element is the serialization of the i-th element: a primitive
\* element, whatever its value, is itself, and with a field serializer the
\* element is the result of the serializer for it, whatever the result.
C14_ElementWise ==
    \A n \in 1..Len(program) :
        ElementScope(n) =>
           \A x \in Shown(n) :
              HoldsItems(IdOf(n, x)) =>
                 LET list == ValueAt(x.o, KeyAt(n, "items"))
                     items == ItemsOf(IdOf(n, x))
                 IN /\ list.t = "list"
                    /\ Len(list.kids) = Len(items)
                    /\ \A i \in 1..Len(items) :
                          IsPrimitive(items[i]) =>
                             list.kids[i] = PerValue(UserPolicy("items"), items[i],
                                                     program[n].options)

\* C14 witness (of the cases that hold): an array of a string and a number, and
\* an array of two strings under a field serializer, came out element by element.
C14_Witness ==
    \E n \in 1..Len(program) :
        /\ ElementScope(n) /\ HoldsItems(1)
        /\ \/ /\ ItemsOf(1) = <<Str(7), Num(7)>> /\ UserPolicy("items").serializer = "none"
              /\ ValueAt(Outcome(n).value, "items") = JsonArray(<<Str(7), Num(7)>>)
           \/ /\ ItemsOf(1) = <<Str(7), Str(8)>> /\ UserPolicy("items").serializer = "maskEmail"
              /\ ValueAt(Outcome(n).value, "items")
                    = JsonArray(<<V("masked", 7), V("masked", 8)>>)

PrimitiveCall(n) == program[n].op = "toJson" /\ Finished(n) /\ IsPrimitive(program[n].target)
SerializerOfTarget(n) == RegisteredFor(EngineOf(n), ConstructorOf(heap, program[n].target))

\* C15 (as the code has it): toJson of a string, a number or a boolean returns
\* the value itself on an engine whose registry holds no serializer for the
\* type of the value, and the result of that serializer when it holds one.
C15_PrimitiveUnlessSerializer ==
    \A n \in 1..Len(program) :
        PrimitiveCall(n) =>
           /\ Outcome(n).kind = "return"
           /\ Outcome(n).value =
                 IF SerializerOfTarget(n) = "none" THEN program[n].target
                 ELSE FnBody(SerializerOfTarget(n), heap, NewState, program[n].target,
                             program[n].options)

\* C15 witness: zero, the empty string and false are returned as themselves by
\* an engine that holds a serializer for another type.
C15_Witness ==
    \E n \in 1..Len(program) :
        /\ PrimitiveCall(n) /\ ~Truthy(program[n].target)
        /\ \E c \in Classes : RegisteredFor(EngineOf(n), c) # "none"
        /\ SerializerOfTarget(n) = "none"
        /\ Outcome(n).value = program[n].target

\* C15 (as stated): on every engine toJson of a string, a number or a boolean
\* returns the value itself.
C15_PrimitiveIdentity ==
    \A n \in 1..Len(program) :
        PrimitiveCall(n) => (Outcome(n).kind = "return" /\ Outcome(n).value = program[n].target)

\* The magnitude a sequence of decimal digits denotes, in two limbs
RECURSIVE ParseDigits(_, _)
ParseDigits(digits, acc) ==
    IF digits = <<>> THEN acc
    ELSE LET low == acc[2].v * 10 + Head(digits).v
         IN ParseDigits(Tail(digits), Mag(acc[1].v * 10 + low \div Limb, low % Limb))

\* -(2^53 - 1) <= b <= 2^53 - 1: the magnitude of b is below 2^53
InSafeRange(b) == b.kids[1].v < Limb \div 2

\* The serialization of the big integer b on an engine of options eo, as C16
\* has it
IsBigIntResult(eo, b, out) ==
    IF eo.transformBigInt = "false" THEN out = b
    ELSE IF InSafeRange(b)
    THEN /\ out.t = "number"
         /\ out = IF b.kids[1].v = 0 THEN Num(b.v * b.kids[2].v)
                  ELSE BigNumber(b.v, b.kids[1].v, b.kids[2].v)
    ELSE /\ out.t = "string" /\ out.v = b.v
         /\ Len(out.kids) > 0 /\ out.kids[1] # Num(0)
         /\ \A i \in 1..Len(out.kids) : out.kids[i].v \in 0..9
         /\ ParseDigits(out.kids, Mag(0, 0)) = b.kids

\* C16: unless transformBigInt is false, a big integer from -(2^53 - 1) to
\* 2^53 - 1 is serialized as the number of the same value and any other as its
\* exact decimal string; with transformBigInt false it is returned unchanged.
\* As the target of toJson and as the value of a field.
C16_BigIntCoercion ==
    \A n \in 1..Len(program) :
        Returned(n) =>
           /\ program[n].target.t = "bigint" =>
                 IsBigIntResult(engines[EngineOf(n)].options, program[n].target,
                                Outcome(n).value)
           /\ (IsUser(program[n].target)
               /\ GetField(heap, program[n].target.v, "serial").t = "bigint") =>
                 IsBigIntResult(engines[EngineOf(n)].options,
                                GetField(heap, program[n].target.v, "serial"),
                                ValueAt(Outcome(n).value, KeyAt(n, "serial")))

\* C16 witness: 2^53 came out as the string 9007199254740992, as the field
\* serial of an object.
C16_Witness ==
    \E n \in 1..Len(program) :
        /\ Returned(n) /\ IsUser(program[n].target)
        /\ engines[EngineOf(n)].options.transformBigInt # "false"
        /\ GetField(heap, 1, "serial") = NearLimit(1, 0)
        /\ ValueAt(Outcome(n).value, "serial").kids
              = <<Num(9), Num(0), Num(0), Num(7), Num(1), Num(9), Num(9), Num(2),
                  Num(5), Num(4), Num(7), Num(4), Num(0), Num(9), Num(9), Num(2)>>

\* C16 witness of the safe limit: 2^53 - 1 came out as the number 2^53 - 1.
C16_SafeWitness ==
    \E n \in 1..Len(program) :
        /\ Returned(n) /\ IsUser(program[n].target)
        /\ engines[EngineOf(n)].options.transformBigInt # "false"
        /\ GetField(heap, 1, "serial") = NearLimit(1, 0 - 1)
        /\ ValueAt(Outcome(n).value, "serial") = MAX_SAFE_INTEGER

\* C16 witness of the negative limit: -(2^53) as the target of toJson came out
\* as a string with a minus sign.
C16_NegativeWitness ==
    \E n \in 1..Len(program) :
        /\ Returned(n) /\ program[n].target = NearLimit(-1, 0)
        /\ Outcome(n).value.t = "string" /\ Outcome(n).value.v = -1

\* The key C17 gives to a field on an engine whose case option is `case`
CasedName(case, name) ==
    CASE case = "camel" -> camelCase(name)
      [] case = "snake" -> snakeCase(name)
      [] case = "pascal" -> pascalCase(name)
      [] OTHER -> name
\* The keys of an object made by traversal: its fields whose value is a number
\* or a string must be keys, and every key must be the cased name of a field
\* ($ref is the key of the result of the circular-reference handler)
AllFieldNames ==
    UNION {{heap[a].fields[i].name : i \in 1..Len(heap[a].fields)} : a \in 1..Len(heap)}
IsCased(case, keys) ==
    \A key \in keys : key = "$ref" \/ \E name \in AllFieldNames : key = CasedName(case, name)
CaseOf(n) == engines[EngineOf(n)].options.case

\* C17: every key of every object of an output, at the root and at every nested
\* level, while it is built and when it is returned, is the casing function of
\* the engine (camel, snake, pascal) applied to the name of a field, the name
\* itself when no case is set; each visible number or string field of the root
\* is found under its cased name.
C17_KeysCased ==
    /\ \A n \in 1..Len(stack) :
          stack[n].op = "fields" =>
             IsCased(engines[self].options.case,
                     {stack[n].acc[m].k : m \in 1..Len(stack[n].acc)})
    /\ \A n \in 1..Len(program) :
          Returned(n) =>
             /\ \A x \in Nodes(Outcome(n).value, 0) : IsCased(CaseOf(n), Keys(x.o))
             /\ (program[n].target.t = "object" /\ Outcome(n).value.t = "json") =>
                    \A i \in 1..Len(heap[program[n].target.v].fields) :
                       LET f == heap[program[n].target.v].fields[i]
                       IN (f.value.t \in {"number", "string"}
                           /\ PolicyOf(program[n].target.v, f.name).visible
                                 \in {"true", "undefined"}
                           /\ PolicyOf(program[n].target.v, f.name).serializer = "none"
                           /\ NoGlobalSerializer(n))
                          => ValueAt(Outcome(n).value, CasedName(CaseOf(n), f.name)) = f.value

\* C17 witness: with snake casing, userName is user_name in the root and in the
\* nested object, two levels down.
C17_Witness ==
    \E n \in 1..Len(program) :
        /\ Returned(n) /\ CaseOf(n) = "snake" /\ "userName" \in FieldNames
        /\ \E x \in Nodes(Outcome(n).value, 0) :
              x.d = 2 /\ "user_name" \in Keys(x.o) /\ "userName" \notin Keys(x.o)

\* C17 witness of camel casing: user_name is userName in a nested object.
C17_CamelWitness ==
    \E n \in 1..Len(program) :
        /\ Returned(n) /\ CaseOf(n) = "camel" /\ "user_name" \in FieldNames
        /\ \E x \in Nodes(Outcome(n).value, 0) : x.d = 1 /\ "userName" \in Keys(x.o)

\* A policy value that is a function of a declared parameter count other than
\* 1, 2 and 4
IsFunction(fn) == fn \notin {"none", "undefined", "true", "false"}
BadArity(fn) == IsFunction(fn) /\ FnLength(fn) \notin {1, 2, 4}
ArityError == V("Error: Invalid number of arguments", 0)
\* The functions a call on root object 1 evaluates, when email is a string field
\* shown by a static policy: the rule and the serializer of email, else the
\* global serializer of String, and the handler when the traversal meets a cycle
EvaluatedBy(n) ==
    LET policy == UserPolicy("email")
    IN (IF "email" \in FieldNames THEN {policy.visible} ELSE {})
       \cup (IF "email" \in FieldNames /\ policy.visible = "true"
             THEN {IF policy.serializer # "none" THEN policy.serializer
                   ELSE RegisteredFor(EngineOf(n), "String")}
             ELSE {})
       \cup (IF HasCycleWithin(program[n].target.v, LimitAt(n)) THEN {HandlerOf(n)} ELSE {})
ArityScope(n) ==
    /\ Finished(n) /\ IsUser(program[n].target)
    /\ UserPolicy("email").visible \in {"true", "undefined"} \cup Functions
    /\ RegisteredFor(EngineOf(n), "User") = "none"

C18_ShapesWitness ==
    \E m \in 1..Len(calls) :
        /\ Len(calls[m].args) = 2 /\ calls[m].args[2].context = 1
        /\ calls[m].parent # program[calls[m].op].target

\* The calls of function fn logged for operation n
CallsOf(n, fn) == {m \in 1..Len(calls) : calls[m].op = n /\ calls[m].fn = fn}

ClassSerializer(a) ==
    IF JsonSchemaIsPresent(jsonSchema, heap[a].class)
    THEN schemas[JsonSchemaGet(jsonSchema, heap[a].class)].serializer
    ELSE "none"
SerializerInForce(n, a) ==
    IF ClassSerializer(a) # "none" THEN ClassSerializer(a)
    ELSE RegisteredFor(EngineOf(n), heap[a].class)

\* The object at address a has a toJSON method of its own and its class has no
\* schema; its class has a schema
AlreadyJson(a) ==
    NativeToJSON(heap[a].class) /\ ~JsonSchemaIsPresent(jsonSchema, heap[a].class)
ModelWithToJSON(a) ==
    NativeToJSON(heap[a].class) /\ JsonSchemaIsPresent(jsonSchema, heap[a].class)

\* The fields of the object at address a that its schema does not hide
ShownFields(a) ==
    {i \in 1..Len(heap[a].fields) : PolicyOf(a, heap[a].fields[i].name).visible # "false"}

\* j is the object at address a traversed under its schema in call n: an
\* object whose keys are the cased names of the fields the schema does not
\* hide, with the numbers and strings of a as their values
TraversedAs(n, a, j) ==
    /\ j.t = "json"
    /\ Keys(j) = {CasedName(CaseOf(n), heap[a].fields[i].name) : i \in ShownFields(a)}
    /\ \A i \in ShownFields(a) :
          heap[a].fields[i].value.t \in {"number", "string"} =>
             ValueAt(j, CasedName(CaseOf(n), heap[a].fields[i].name)) = heap[a].fields[i].value

\* The fields of the root of call n that hold an object with a toJSON method
\* and that the schema of the root neither hides nor gives a serializer
ToJSONFields(n) ==
    LET r == program[n].target.v
    IN {i \in 1..Len(heap[r].fields) :
           /\ heap[r].fields[i].value.t = "object"
           /\ NativeToJSON(heap[heap[r].fields[i].value.v].class)
           /\ PolicyOf(r, heap[r].fields[i].name).visible \in {"true", "undefined"}
           /\ PolicyOf(r, heap[r].fields[i].name).serializer = "none"}

\* The value the output of call n has for field i of its root
FieldOutput(n, i) ==
    ValueAt(Outcome(n).value,
            CasedName(CaseOf(n), heap[program[n].target.v].fields[i].name))

\* What C20 says of the objects with a toJSON method met by call n, whose
\* serializers are ignored when `always` is set
ToJSONRule(n, always) ==
    LET r == program[n].target.v
    IN /\ (NativeToJSON(heap[r].class) /\ (always \/ SerializerInForce(n, r) = "none")) =>
             /\ Outcome(n).kind = "return"
             /\ AlreadyJson(r) => Outcome(n).value = program[n].target
             /\ ModelWithToJSON(r) => TraversedAs(n, r, Outcome(n).value)
       /\ (Returned(n) /\ Outcome(n).value.t = "json") =>
             \A i \in ToJSONFields(n) :
                LET b == heap[r].fields[i].value.v
                IN (always \/ SerializerInForce(n, b) = "none") =>
                      /\ AlreadyJson(b) => FieldOutput(n, i) = heap[r].fields[i].value
                      /\ ModelWithToJSON(b) => TraversedAs(n, b, FieldOutput(n, i))

C20_RootWitness ==
    \E n \in 1..Len(program) :
        /\ program[n].op = "toJson" /\ Returned(n) /\ program[n].target = Ref(DateAddr)
        /\ \E c \in Classes : RegisteredFor(EngineOf(n), c) # "none"
        /\ SerializerInForce(n, DateAddr) = "none"
        /\ Outcome(n).value = Ref(DateAddr)

\* C20 witness of the traversal: a Node whose schema hides user_name, on an
\* engine with pascal keys, gives Id and RegisteredAt, the Date unchanged.
C20_ModelWitness ==
    \E n \in 1..Len(program) :
        /\ program[n].op = "toJson" /\ Returned(n) /\ program[n].target.t = "object"
        /\ heap[program[n].target.v].class = "Node"
        /\ ModelWithToJSON(program[n].target.v)
        /\ CaseOf(n) = "pascal"
        /\ Keys(Outcome(n).value) = {"Id", "RegisteredAt"}
        /\ ValueAt(Outcome(n).value, "RegisteredAt") = Ref(DateAddr)

RegisteredTypes ==
    {c \in Classes :
        \E n \in 1..(pc - 1) :
           \/ program[n].op \in {"JsonField", "JsonSerializer"} /\ program[n].cls = c
           \/ program[n].op = "new" /\ HasModel(program[n].opts, c)}

\* C21: get of a class is a schema only when one was created for that very
\* class: for a class never registered, a subclass of a registered class
\* included, get is undefined and isPresent is false; for a registered class
\* get is defined, and getOrCreate returns the schema get returns and creates
\* none.
C21_ExactTypeLookup ==
    \A c \in Classes :
        IF c \in RegisteredTypes
        THEN /\ JsonSchemaGet(jsonSchema, c) # 0
             /\ JsonSchemaIsPresent(jsonSchema, c)
             /\ GetOrCreateStatic(schemas, jsonSchema, c)[c] = JsonSchemaGet(jsonSchema, c)
             /\ GetOrCreateSchemas(schemas, jsonSchema, c) = schemas
        ELSE /\ JsonSchemaGet(jsonSchema, c) = 0
             /\ ~JsonSchemaIsPresent(jsonSchema, c)

\* C21 witness: User is registered with secret hidden and Admin, its subclass,
\* is not; get of Admin is the schema of User, and the Admin object was
\* serialized without its secret.
C21_Witness ==
    /\ "User" \in RegisteredTypes /\ "Admin" \notin RegisteredTypes
    /\ JsonSchemaGet(jsonSchema, "Admin") = jsonSchema["User"]
    /\ JsonSchemaIsPresent(jsonSchema, "Admin")
    /\ UserPolicy("secret").visible = "false"
    /\ \E n \in 1..Len(program) :
          /\ Returned(n) /\ program[n].target.t = "object"
          /\ heap[program[n].target.v].class = "Admin"
          /\ Keys(Outcome(n).value) = {"id", "email"}


\* What get gives for class c in a schema store: no schema, or the schema
\* with its policies
SchemaView(sch, js, c) ==
    IF JsonSchemaGet(js, c) = 0 THEN {} ELSE {sch[JsonSchemaGet(js, c)]}
\* The policy class c has for field `name` in a schema store
PolicyView(sch, js, c, name) == FieldOptions(sch, JsonSchemaGet(js, c), name)
\* The step of a @JsonField decorator
DecoratorStep ==
    /\ mode = "idle" /\ pc <= Len(program) /\ program[pc].op = "JsonField"
    /\ pc' = pc + 1
\* The policy @JsonField(options) registers: visible is true when left out
PolicyGiven(policy) ==
    IF policy.visible = "undefined" THEN [policy EXCEPT !.visible = "true"] ELSE policy

\* C22: a @JsonField on a field of class A sets the policy of that field in the
\* schema of A (the last registration wins), leaves the other policies of A as
\* they were, and leaves what get gives for every other class as it was, the
\* superclass and the subclasses of A included; no two classes hold the same
\* schema instance.
C22_OwnSchemaOnly ==
    [][DecoratorStep =>
          /\ PolicyView(schemas', jsonSchema', program[pc].cls, program[pc].name)
                = PolicyGiven(program[pc].policy)
          /\ \A name \in AllFieldNames \ {program[pc].name} :
                PolicyView(schemas', jsonSchema', program[pc].cls, name)
                   = PolicyView(schemas, jsonSchema, program[pc].cls, name)
          /\ \A c \in Classes \ {program[pc].cls} :
                SchemaView(schemas', jsonSchema', c) = SchemaView(schemas, jsonSchema, c)
          /\ \A c, d \in Classes :
                (c # d /\ jsonSchema'[c] # 0) => jsonSchema'[c] # jsonSchema'[d]]_vars

\* C22 witness: after @JsonField(false) on secret of User and on email of Admin
\* only, there is one schema instance, held by both classes, and the User
\* object was serialized without its email.
C22_Witness ==
    /\ Len(schemas) = 1 /\ jsonSchema["User"] = 1 /\ jsonSchema["Admin"] = 1
    /\ \A n \in 1..Len(program) :
          (program[n].op = "JsonField" /\ program[n].name = "email") => program[n].cls = "Admin"
    /\ PolicyView(schemas, jsonSchema, "User", "email").visible = "false"
    /\ \E n \in 1..Len(program) :
          /\ Returned(n) /\ IsUser(program[n].target)
          /\ Keys(Outcome(n).value) = {"id"}


\* The activations of serialize that are inside their try block
Dived == {n \in 1..Len(stack) : stack[n].op = "dived"}

\* C23: the depth of the tracker is its number of levels minus one and is the
\* number of activations of serialize inside their try block, at every step
\* and on every way out of the block (return, pruning, handler, a thrown
\* CircularReferenceError, an error thrown while a serializer is evaluated):
\* when a call has returned or thrown, the depth is 0 again.
C23_DiveAriseBalanced ==
    /\ st.visited.currentDepth = Len(st.visited.depths) - 1
    /\ st.visited.currentDepth = Cardinality(Dived)
    /\ stack = <<>> => st.visited.currentDepth = 0

\* C23 witness: a CircularReferenceError raised for the root, met again below
\* it, has left every try block, and the tracker is back at depth 0 with its
\* root level only.
C23_Witness ==
    /\ mode = "throw" /\ IsError(ret) /\ stack = <<>>
    /\ Ref(ret.v) \in st.visited.depths[1]
    /\ st.visited.currentDepth = 0 /\ Len(st.visited.depths) = 1

\* C23 witness of an error thrown while the serializer of field email is
\* evaluated inside the try block: the block is left with the tracker at
\* depth 0.
C23_SerializerErrorWitness ==
    /\ mode = "throw" /\ ret.t = "Error: Invalid number of arguments"
    /\ UserPolicy("email").visible \in {"true", "undefined"}
    /\ UserPolicy("email").serializer # "none"
    /\ FnLength(UserPolicy("email").serializer) \notin {1, 2, 4}
    /\ stack # <<>> /\ Top.op = "fields"
    /\ st.visited.currentDepth = 0 /\ Len(st.visited.depths) = 1

\* C23 witness of pruning: a value beyond the depth limit returns absent from
\* inside the try block, two levels down.
C23_PruneWitness ==
    /\ mode = "ret" /\ ret = Undefined /\ stack # <<>> /\ Top.op = "dived"
    /\ st.visited.currentDepth = 2
    /\ st.visited.currentDepth > EffectiveMaxDepth(Top.opt, engines[self].options)


\* A reference value: an object, an array or a Date, held by its address
IsReference(value) == value.t = "object"
VisitStep == pc <= Len(program) /\ program[pc].op = "visit" /\ pc' = pc + 1
AriseStep == pc <= Len(program) /\ program[pc].op = "arise" /\ pc' = pc + 1
\* The values recorded at the levels 1..n of a tracker
RecordedUpTo(vm, n) == UNION {vm.depths[d] : d \in 1..n}

\* C24: visit of a value that is not a reference value returns false and
\* leaves the tracker as it was; visit of a reference value recorded at any
\* level returns true and leaves the tracker as it was; visit of another
\* reference value returns false and records it at the current level only,
\* so that a second visit returns true; arise forgets the values of the level
\* it pops and no other.
C24_VisitContract ==
    [][/\ VisitStep =>
             LET v == program[pc].target
                 vm == st.visited
             IN IF ~IsReference(v)
                THEN /\ results'[Len(results')].value = Bool(FALSE)
                     /\ st'.visited = vm
                ELSE IF v \in RecordedUpTo(vm, Len(vm.depths))
                THEN /\ results'[Len(results')].value = Bool(TRUE)
                     /\ st'.visited = vm
                ELSE /\ results'[Len(results')].value = Bool(FALSE)
                     /\ st'.visited = [vm EXCEPT !.depths[vm.currentDepth + 1] = @ \cup {v}]
                     /\ visitResult(st'.visited, v)
       /\ AriseStep =>
             \A v \in TrackerValues :
                has(st'.visited, v) <=> v \in RecordedUpTo(st.visited, Len(st.visited.depths) - 1)
      ]_vars

\* C24 witness: a visit of null returned true, null having been recorded by
\* an earlier visit.
C24_Witness ==
    \E n \in 1..Len(results) :
        /\ program[results[n].op].op = "visit"
        /\ program[results[n].op].target = Null
        /\ results[n].value = Bool(TRUE)
        /\ has(st.visited, Null)


\* Class c has both a whole-type serializer on its schema and a global
\* serializer on the engine of call n
BothSerializers(n, c) ==
    /\ JsonSchemaIsPresent(jsonSchema, c)
    /\ schemas[JsonSchemaGet(jsonSchema, c)].serializer # "none"
    /\ RegisteredFor(EngineOf(n), c) # "none"
SchemaSerializerOf(c) == schemas[JsonSchemaGet(jsonSchema, c)].serializer

\* C25: for a class with both a whole-type serializer on its schema and a
\* global serializer on the engine, a toJson call invokes the whole-type
\* serializer on every instance it meets, never the global one; an instance
\* given as the target, and an instance held by a field of the target, gives
\* the result of the whole-type serializer as it is.
C25_SchemaSerializerFirst ==
    \A n \in 1..Len(program) :
        (program[n].op = "toJson" /\ Finished(n) /\ program[n].target.t = "object") =>
           LET r == program[n].target.v
           IN /\ \A c \in Classes :
                    BothSerializers(n, c) =>
                       \A m \in CallsOf(n, RegisteredFor(EngineOf(n), c)) :
                          ConstructorOf(heap, calls[m].value) # c
              /\ BothSerializers(n, heap[r].class) =>
                    /\ Outcome(n).kind = "return"
                    /\ Outcome(n).value = FnBody(SchemaSerializerOf(heap[r].class), heap,
                                                 NewState, Ref(r), program[n].options)
              /\ (Returned(n) /\ Outcome(n).value.t = "json") =>
                    \A i \in 1..Len(heap[r].fields) :
                       LET f == heap[r].fields[i]
                       IN (f.value.t = "object" /\ BothSerializers(n, heap[f.value.v].class)
                           /\ PolicyOf(r, f.name).visible \in {"true", "undefined"}
                           /\ PolicyOf(r, f.name).serializer = "none")
                          => ValueAt(Outcome(n).value, KeyAt(n, f.name))
                                = FnBody(SchemaSerializerOf(heap[f.value.v].class), heap,
                                         NewState, f.value, program[n].options)

\* C25 witness: class User has a whole-type serializer and a global one; the
\* User held by field friend of a plain object came out as the result of the
\* global serializer, which was invoked on it, and the whole-type serializer
\* was not invoked.
C25_Witness ==
    \E n \in 1..Len(program) :
        /\ program[n].op = "toJson" /\ Returned(n) /\ program[n].target = Ref(1)
        /\ heap[1].class = "Object" /\ BothSerializers(n, "User")
        /\ ValueAt(Outcome(n).value, "friend") = FnBody("userSerializer", heap, NewState,
                                                        Ref(2), program[n].options)
        /\ \E m \in CallsOf(n, "userSerializer") : calls[m].value = Ref(2)
        /\ CallsOf(n, SchemaSerializerOf("User")) = {}

\* C25 witness at the root: the User given as the target came out as the
\* result of the whole-type serializer, and the global one was not invoked.
C25_RootWitness ==
    \E n \in 1..Len(program) :
        /\ program[n].op = "toJson" /\ Returned(n) /\ program[n].target = Ref(2)
        /\ BothSerializers(n, "User")
        /\ Outcome(n).value = FnBody(SchemaSerializerOf("User"), heap, NewState, Ref(2),
                                     program[n].options)
        /\ CallsOf(n, "userSerializer") = {}


\* The step of the try block of serialize for a value beyond the depth limit
\* in force
PruneStep ==
    /\ mode = "body" /\ stack # <<>> /\ Top.op = "dived"
    /\ st.visited.currentDepth > EffectiveMaxDepth(Top.opt, engines[self].options)

\* C26: a value beyond the depth limit in force is given back as absent by the
\* step that meets it, with the tracker and the log of callbacks as they were
\* (nothing recorded, no handler invoked, no error), whether or not the value
\* is already recorded; and a call without handler on a graph none of whose
\* cycles closes within the limit returns.
C26_DepthBeforeVisit ==
    /\ [][PruneStep =>
             /\ mode' = "ret" /\ ret' = Undefined
             /\ st' = st /\ calls' = calls /\ stack' = stack]_vars
    /\ [](\A n \in 1..Len(program) :
             (/\ Finished(n) /\ StructuralProgram /\ IsUser(program[n].target)
              /\ HandlerOf(n) = "none"
              /\ ~HasCycleWithin(program[n].target.v, LimitAt(n)))
             => Outcome(n).kind = "return" /\ HandlerCalls(n) = {})

\* C26 witness: on a ring, with no handler, the root met again beyond the depth
\* limit is given back as absent while it is recorded at level 0, and nothing
\* is recorded at the level pushed for it.
C26_Witness ==
    /\ mode = "ret" /\ ret = Undefined /\ stack # <<>> /\ Top.op = "dived"
    /\ engines[self].options.circularReferenceSerializer = "none"
    /\ st.visited.currentDepth > EffectiveMaxDepth(Top.opt, engines[self].options)
    /\ Top.val \in st.visited.depths[1]
    /\ st.visited.depths[st.visited.currentDepth + 1] = {}

\* C26 witness of the outcome: a call without handler, limited to depth 2, on
\* a graph with a cycle returned a tree.
C26_OutcomeWitness ==
    \E n \in 1..Len(program) :
        /\ Returned(n) /\ StructuralProgram /\ IsUser(program[n].target)
        /\ HandlerOf(n) = "none" /\ LimitAt(n) = 2
        /\ HasCycleWithin(program[n].target.v, Infinity)
        /\ Outcome(n).value.t = "json"

\* C27: every top-level toJson call on a finite graph, cycles through objects,
\* through arrays and through an array that contains itself included, ends
\* by returning a value or by raising CircularReferenceError, with or without
\* a depth limit.
C27_ReturnsOrCircular ==
    \A n \in 1..Len(program) :
        Finished(n) =>
           \/ Outcome(n).kind = "return"
           \/ Outcome(n).kind = "throw" /\ Outcome(n).value.t = "CircularReferenceError"

\* C27 witness: a call on the array that contains itself, on an engine with a
\* depth limit of 1, has ended.
C27_Witness ==
    \E n \in 1..Len(program) :
        /\ Finished(n) /\ program[n].target = Ref(ItemsAddr)
        /\ SelfContaining(heap, ItemsAddr)
        /\ LimitAt(n) = 1

\* C27 witness through a field: a call on the object holding the array that
\* contains itself has ended by the error of the exhausted call stack.
C27_FieldWitness ==
    \E n \in 1..Len(program) :
        /\ Finished(n) /\ program[n].target = Ref(1)
        /\ SelfContaining(heap, ItemsAddr)
        /\ Outcome(n).kind = "throw" /\ Outcome(n).value = RangeError

\* The traversal under way: a state exists, and its root is the target of the
\* call or, for an array, the element being converted
Traversing == \E n \in 1..Len(stack) : stack[n].hs
RootTarget ==
    IF stack # <<>> /\ stack[1].op = "mapToJson"
    THEN heap[stack[1].val.v].items[stack[1].i]
    ELSE program[pc].target
\* The activation of serialize that pushed level k of the tracker
DivedAt(k) == CHOOSE n \in Dived : Cardinality({m \in Dived : m <= n}) = k
Path == {stack[n].val : n \in Dived \ {Len(stack)}}
Recorded(vm) == UNION {vm.depths[d] : d \in 1..Len(vm.depths)}
\* The step of the try block of serialize that reaches state.visited.visit
VisitCheck ==
    /\ mode = "body" /\ stack # <<>> /\ Top.op = "dived"
    /\ st.visited.currentDepth <= EffectiveMaxDepth(Top.opt, engines[self].options)
\* The plain copies of x made by get() for the serializer of sequelizeInstall
CopiesOf(x) ==
    {Ref(a) : a \in {b \in 1..Len(heap) :
                        /\ x.t = "object" /\ b # x.v
                        /\ heap[b].class = "Object" /\ heap[b].fields = heap[x.v].fields}}
LevelsHoldPath ==
    \A k \in 1..st.visited.currentDepth :
       st.visited.depths[k + 1] \subseteq {stack[DivedAt(k)].val}
ReportedIffOnPath ==
    VisitCheck => (visitResult(st.visited, Top.val) <=> Top.val \in {RootTarget} \cup Path)

\* C28 as stated: during a traversal level 0 of the tracker holds the root
\* only, each level above 0 holds at most the value whose serialization pushed
\* it, so nothing of a completed subtree stays recorded; and a value is
\* reported as already visited iff it is the root or a value being serialized
\* on the current path.
C28_RootAndPathOnly ==
    Traversing =>
       /\ st.visited.depths[1] \subseteq {RootTarget}
       /\ LevelsHoldPath
       /\ Recorded(st.visited) \subseteq {RootTarget} \cup {stack[n].val : n \in Dived}
       /\ ReportedIffOnPath

\* C28 amended: as stated, except that level 0 holds, besides the root, the
\* plain copy of the root when the root is converted by the serializer of
\* sequelizeInstall.
C28_PathOnly ==
    Traversing =>
       /\ st.visited.depths[1] \subseteq {RootTarget} \cup CopiesOf(RootTarget)
       /\ LevelsHoldPath
       /\ Recorded(st.visited) \subseteq
             {RootTarget} \cup CopiesOf(RootTarget) \cup {stack[n].val : n \in Dived}
       /\ ReportedIffOnPath

\* C28 witness: the root is traversing its fields, the serialization of an
\* earlier field that holds object x has completed, x is met again under a
\* later field and is not reported: only the root is recorded.
C28_Witness ==
    /\ Traversing /\ VisitCheck /\ Len(stack) = 2 /\ stack[1].op = "fields"
    /\ \E i \in 1..(stack[1].i - 1) :
          /\ heap[RootTarget.v].fields[i].value = Top.val
          /\ \E q \in 1..Len(stack[1].acc) : stack[1].acc[q].j.t = "json"
    /\ ~visitResult(st.visited, Top.val)
    /\ Recorded(st.visited) = {RootTarget}

\* C28 witness of the copy: below the root converted by the serializer of
\* sequelizeInstall, level 0 holds the root and its plain copy.
C28_CopyWitness ==
    /\ Traversing /\ st.visited.currentDepth >= 1
    /\ CopiesOf(RootTarget) # {}
    /\ st.visited.depths[1] = {RootTarget} \cup CopiesOf(RootTarget)

\* The fields of the object at address a whose value is a primitive scalar or
\* a big integer
TrivialFields(a) ==
    {heap[a].fields[i].name :
        i \in {q \in 1..Len(heap[a].fields) :
                  heap[a].fields[q].value.t \in {"number", "string", "boolean", "bigint"}}}
\* Every object of the graph is a User, or the plain copy of one
UsersOnly ==
    /\ \A a \in 1..Len(heap) : heap[a].class \in {"User", "Date", "Array", "Object"}
    /\ heap[1].class = "User"
\* The id of every object is given as it is
IdAsItIs(n) ==
    /\ UserPolicy("id").serializer = "none"
    /\ engines[EngineOf(n)].serializers["Number"].fn = "none"

PlainFields(n) ==
    /\ program[n].target.t = "object" /\ NoGlobalSerializer(n)
    /\ \A i \in 1..Len(heap[program[n].target.v].fields) :
          LET f == heap[program[n].target.v].fields[i]
          IN /\ f.value.t \in {"number", "string", "boolean"}
             /\ PolicyOf(program[n].target.v, f.name).visible \in {"true", "false", "undefined"}
             /\ PolicyOf(program[n].target.v, f.name).serializer = "none"
VisibleField(n, i) ==
    PolicyOf(program[n].target.v, heap[program[n].target.v].fields[i].name).visible # "false"
\* The position in the output of the i-th field, a visible one
KeyPosition(n, i) == Cardinality({q \in 1..i : VisibleField(n, q)})
SameKey(n, i, q) ==
    KeyAt(n, heap[program[n].target.v].fields[i].name)
       = KeyAt(n, heap[program[n].target.v].fields[q].name)

\* C30: the object made by the traversal of O has exactly one key per visible
\* field of O whose serialization is not absent, in the order of the fields,
\* each with the value of its field, under every case option.
C30_OneKeyPerField ==
    \A n \in 1..Len(program) :
        (Returned(n) /\ PlainFields(n) /\ Outcome(n).value.t = "json") =>
           LET fields == heap[program[n].target.v].fields
               kids == Outcome(n).value.kids
               visible == {i \in 1..Len(fields) : VisibleField(n, i)}
           IN /\ Len(kids) = Cardinality(visible)
              /\ \A i \in visible :
                    /\ kids[KeyPosition(n, i)].k = KeyAt(n, fields[i].name)
                    /\ kids[KeyPosition(n, i)].j = fields[i].value

\* C30 witness: with a case option set, a call returned the object made from
\* a target with two visible fields that the casing function sends to one key.
C30_Witness ==
    \E n \in 1..Len(program) :
        /\ Returned(n) /\ PlainFields(n) /\ Outcome(n).value.t = "json"
        /\ CaseOf(n) # "none"
        /\ \E i, q \in 1..Len(heap[program[n].target.v].fields) :
              /\ i # q /\ VisibleField(n, i) /\ VisibleField(n, q)
              /\ SameKey(n, i, q)

====
